---- MODULE Spec2Model ----
(***************************************************************************)
(* A model of tracing-otel-extra: the OtelGuard lifecycle                 *)
(* (crates/tracing-opentelemetry/src/guard.rs) and the trace-context      *)
(* propagation / span-parenting path (crates/tracing-otel/src/http,       *)
(* crates/tracing-otel/src/trace, crates/axum-otel/src/make_span.rs),     *)
(* the OTLP exporter protocol and the provider initialisation             *)
(* (crates/tracing-opentelemetry/src/otel.rs, subscriber.rs), and the     *)
(* logger's output layers, file appender configuration, configuration     *)
(* deserialisers, environment loading and initialisation                  *)
(* (crates/tracing-otel/src/logger, crates/tracing-otel/src/logs), and    *)
(* the request id of a request (crates/tracing-otel/src/trace/fields.rs). *)
(***************************************************************************)
EXTENDS Integers, Sequences, FiniteSets, TLC

(***************************************************************************)
(* Bounds of the model.                                                    *)
(***************************************************************************)
\* number of OtelGuard values that are ever constructed
MaxGuards == 2

\* number of threads that call into the output-layer code
MaxThreads == 2

\* number of non-blocking writers (and worker guards) that are ever made
MaxWorkers == 3

\* the longest list of pipe-joined span-event tokens
MaxTokens == 3

\* the longest list of comma-joined attribute segments
MaxSegments == 3

(***************************************************************************)
(* Part 1: OtelGuard.                                                      *)
(***************************************************************************)
VARIABLES
    guardState,   \* per guard: "Uninitialized", "Active" or "ShutDown"
    slots,        \* per guard, per signal: the provider held, or NoProvider
    provShut,     \* per provider: the SDK's is_shutdown flag
    calls,        \* per guard, per provider: shutdown() calls the guard made
    report        \* per guard: what its teardown did and returned

guardVars == <<guardState, slots, provShut, calls, report>>

VARIABLES
    propagator,   \* the global text-map propagator: "Noop" until registered
    subscriber,   \* the global subscriber: None, or Some(max level of its filter)
    httpOp,       \* the last propagation or span operation and what it produced
    spanName      \* the request line and the name fields of the last span created

httpVars == <<propagator, subscriber, httpOp, spanName>>

VARIABLES
    env,          \* the process environment: per variable, its value if set
    exporter      \* the last OTLP exporter built: signal, protocol, transport

protocolVars == <<env, exporter>>

VARIABLES
    globalProvider,  \* per signal: the provider registered with opentelemetry::global
    built,           \* per signal: number of providers built so far
    initOp           \* the last initialisation call and what it returned

initVars == <<globalProvider, built, initOp>>

VARIABLES
    appenderGuard,   \* NONBLOCKING_APPENDER_GUARD: None, or Some(worker guard)
    threads,         \* per thread: the call it is in and where it stands
    workersMade,     \* number of non-blocking writers made so far
    dropped,         \* the worker guards that were dropped
    setResults,      \* the set_nonblocking_appender_guard calls that returned
    returned,        \* the workers of the non-blocking file layers handed back
    layersOp         \* the last create_output_layers call that returned

layerVars == <<appenderGuard, threads, workersMade, dropped, setResults, returned, layersOp>>

VARIABLES
    mergeOp          \* the last merge_with_logger call: its inputs as the call
                     \* left them, and the LoggerFileAppender it returned

configVars == <<mergeOp>>

VARIABLES
    sinkOp,          \* the last file layer create_output_layers configured
    spanEventsOp,    \* the last deserialize_span_events call
    envLoadOp,       \* the last init_logger_from_env call
    attributesOp,    \* the last deserialize_attributes call
    requestIdOp      \* the last extract_request_id call

parseVars == <<sinkOp, spanEventsOp, envLoadOp, attributesOp, requestIdOp>>

vars == <<guardState, slots, provShut, calls, report, propagator, subscriber, httpOp,
          spanName, env, exporter, globalProvider, built, initOp, appenderGuard,
          threads, workersMade, dropped, setResults, returned, layersOp, mergeOp,
          sinkOp, spanEventsOp, envLoadOp, attributesOp, requestIdOp>>

\* what the operations of one part leave alone: the state of the other parts
otherThanGuard == <<httpVars, protocolVars, initVars, layerVars, configVars, parseVars>>

otherThanHttp == <<guardVars, protocolVars, initVars, layerVars, configVars, parseVars>>

otherThanProtocol == <<guardVars, httpVars, initVars, layerVars, configVars, parseVars>>

otherThanLayers == <<guardVars, httpVars, protocolVars, initVars, configVars, parseVars>>

otherThanConfig == <<guardVars, httpVars, protocolVars, initVars, layerVars, parseVars>>

otherThanParse == <<guardVars, httpVars, protocolVars, initVars, layerVars, configVars>>

otherThanSink == <<otherThanParse, spanEventsOp, envLoadOp, attributesOp, requestIdOp>>

otherThanSpanEvents == <<otherThanParse, sinkOp, envLoadOp, attributesOp, requestIdOp>>

otherThanEnvLoad == <<otherThanParse, sinkOp, spanEventsOp, attributesOp, requestIdOp>>

otherThanAttributes == <<otherThanParse, sinkOp, spanEventsOp, envLoadOp, requestIdOp>>

otherThanRequestId == <<otherThanParse, sinkOp, spanEventsOp, envLoadOp, attributesOp>>

Guards == 1..MaxGuards

\* the three fields of OtelGuard, in declaration (and teardown) order
Signals == <<"tracer", "meter", "logger">>

SignalSet == {Signals[i] : i \in 1..Len(Signals)}

\* the SDK providers: <<g, s>> is the provider of signal s built for guard g
Providers == Guards \X SignalSet

\* Option<Provider>::None
NoProvider == <<>>

\* number of occurrences of x in the sequence q
Occurrences(q, x) == Cardinality({i \in 1..Len(q) : q[i] = x})

EmptySlots == [s \in SignalSet |-> NoProvider]

\* SdkTracerProvider / SdkMeterProvider / SdkLoggerProvider ::shutdown as the
\* guard calls it: a provider that is already shut down answers
\* AlreadyShutdown, otherwise the flush may fail (fail) or succeed; in every
\* case the provider is shut down afterwards.
ProviderShutdown(shut, p, fail) ==
    [ result |-> IF shut[p] THEN "AlreadyShutdown"
                 ELSE IF fail THEN "InternalFailure" ELSE "Ok",
      shut   |-> [shut EXCEPT ![p] = TRUE] ]

\* the accumulator a teardown threads through its three `if let Some(..)` blocks
StartAcc(sl, shut) ==
    [ slots |-> sl, shut |-> shut, called |-> <<>>, errors |-> <<>>, stderr |-> <<>> ]

\* a bug: `?` on the provider's result, which leaves at the first failure
ShutdownStepStopAtFirstError(acc, s, fail) ==
    IF acc.slots[s] = NoProvider \/ acc.errors # <<>> THEN acc
    ELSE LET p == acc.slots[s]
             r == ProviderShutdown(acc.shut, p, s \in fail)
         IN [ acc EXCEPT !.slots  = [acc.slots EXCEPT ![s] = NoProvider],
                         !.shut   = r.shut,
                         !.called = Append(acc.called, p),
                         !.errors = IF r.result = "Ok" THEN acc.errors
                                    ELSE Append(acc.errors,
                                                [signal |-> s, kind |-> r.result]) ]

\* a bug: `if let Some(p) = &self.x` (no take()), which leaves the handle in place
ShutdownStepNoTake(acc, s, fail) ==
    IF acc.slots[s] = NoProvider THEN acc
    ELSE LET p == acc.slots[s]
             r == ProviderShutdown(acc.shut, p, s \in fail)
         IN [ acc EXCEPT !.shut   = r.shut,
                         !.called = Append(acc.called, p),
                         !.errors = IF r.result = "Ok" THEN acc.errors
                                    ELSE Append(acc.errors,
                                                [signal |-> s, kind |-> r.result]) ]

\* one block of OtelGuard::shutdown:
\*   if let Some(p) = self.x.take() { if let Err(err) = p.shutdown() { errors.push(err) } }
ShutdownStep(acc, s, fail) ==
    IF acc.slots[s] = NoProvider THEN acc
    ELSE LET p == acc.slots[s]
             r == ProviderShutdown(acc.shut, p, s \in fail)
         IN [ acc EXCEPT !.slots  = [acc.slots EXCEPT ![s] = NoProvider],
                         !.shut   = r.shut,
                         !.called = Append(acc.called, p),
                         !.errors = IF r.result = "Ok" THEN acc.errors
                                    ELSE Append(acc.errors,
                                                [signal |-> s, kind |-> r.result]) ]

\* a bug: the failure is swallowed without a line on standard error
DropStepSilent(acc, s, fail) ==
    IF acc.slots[s] = NoProvider THEN acc
    ELSE LET p == acc.slots[s]
             r == ProviderShutdown(acc.shut, p, s \in fail)
         IN [ acc EXCEPT !.slots  = [acc.slots EXCEPT ![s] = NoProvider],
                         !.shut   = r.shut,
                         !.called = Append(acc.called, p) ]

\* one block of Drop::drop:
\*   if let Some(p) = self.x.take() { if let Err(err) = p.shutdown() { eprintln!(..) } }
DropStep(acc, s, fail) ==
    IF acc.slots[s] = NoProvider THEN acc
    ELSE LET p == acc.slots[s]
             r == ProviderShutdown(acc.shut, p, s \in fail)
         IN [ acc EXCEPT !.slots  = [acc.slots EXCEPT ![s] = NoProvider],
                         !.shut   = r.shut,
                         !.called = Append(acc.called, p),
                         !.stderr = IF r.result = "Ok" THEN acc.stderr
                                    ELSE Append(acc.stderr,
                                                [signal |-> s, kind |-> r.result]) ]

\* the body of OtelGuard::shutdown: tracer, then meter, then logger
ShutdownBody(sl, shut, fail) ==
    ShutdownStep(ShutdownStep(ShutdownStep(StartAcc(sl, shut),
        "tracer", fail), "meter", fail), "logger", fail)

\* the value OtelGuard::shutdown returns: Ok(()) when nothing failed, otherwise
\* one anyhow error whose message is the Debug rendering of the whole vector
\* ("Failed to shutdown some providers: {errors:?}"); nothing is logged.
ShutdownResult(errors) ==
    IF errors = <<>>
    THEN [ ok |-> TRUE,  reported |-> <<>>,   logged |-> <<>> ]
    ELSE [ ok |-> FALSE, reported |-> errors, logged |-> <<>> ]

\* the body of Drop::drop for OtelGuard
DropBody(sl, shut, fail) ==
    DropStep(DropStep(DropStep(StartAcc(sl, shut),
        "tracer", fail), "meter", fail), "logger", fail)

\* calls[g] after guard g called shutdown() on the providers of `called`
CountCalls(c, called) ==
    [p \in Providers |-> c[p] + Occurrences(called, p)]

NoReport ==
    [ op |-> "none", held |-> EmptySlots, fail |-> {}, called |-> <<>>,
      result |-> ShutdownResult(<<>>), dropCalled |-> <<>>, stderr |-> <<>> ]

GuardInit ==
    /\ guardState = [g \in Guards |-> "Uninitialized"]
    /\ slots = [g \in Guards |-> EmptySlots]
    /\ provShut = [p \in Providers |-> FALSE]
    /\ calls = [g \in Guards |-> [p \in Providers |-> 0]]
    /\ report = [g \in Guards |-> NoReport]

\* the signals whose slot holds a provider
HeldSignals(sl) == {s \in SignalSet : sl[s] # NoProvider}

\* OtelGuard::new(tracer_provider, meter_provider, logger_provider), handed
\* Some(provider) for the signals of `held` and None for the others
GuardNew(g, held) ==
    /\ guardState[g] = "Uninitialized"
    /\ guardState' = [guardState EXCEPT ![g] = "Active"]
    /\ slots' = [slots EXCEPT ![g] =
                    [s \in SignalSet |-> IF s \in held THEN <<g, s>> ELSE NoProvider]]
    /\ UNCHANGED <<provShut, calls, report>>
    /\ UNCHANGED otherThanGuard

\* with_tracer_provider / with_meter_provider / with_logger_provider, in the
\* builder use the model covers: the slot of signal s is still None
GuardWithProvider(g, s) ==
    /\ guardState[g] = "Active"
    /\ slots[g][s] = NoProvider
    /\ slots' = [slots EXCEPT ![g][s] = <<g, s>>]
    /\ UNCHANGED <<guardState, provShut, calls, report>>
    /\ UNCHANGED otherThanGuard

\* OtelGuard::shutdown(mut self): the body, then the drop of `self` at the end
\* of the call, which runs Drop::drop on what the body left in the slots.
\* fail: the signals whose provider fails to flush.
GuardShutdown(g, fail) ==
    /\ guardState[g] = "Active"
    /\ LET body == ShutdownBody(slots[g], provShut, fail)
           drop == DropBody(body.slots, body.shut, fail)
       IN /\ slots' = [slots EXCEPT ![g] = drop.slots]
          /\ provShut' = drop.shut
          /\ calls' = [calls EXCEPT ![g] = CountCalls(CountCalls(@, body.called), drop.called)]
          /\ report' = [report EXCEPT ![g] =
                          [ op |-> "shutdown", held |-> slots[g], fail |-> fail,
                            called |-> body.called,
                            result |-> ShutdownResult(body.errors),
                            dropCalled |-> drop.called,
                            stderr |-> drop.stderr ]]
    /\ guardState' = [guardState EXCEPT ![g] = "ShutDown"]
    /\ UNCHANGED otherThanGuard

\* Drop::drop of a guard that was never shut down explicitly
GuardDrop(g, fail) ==
    /\ guardState[g] = "Active"
    /\ LET drop == DropBody(slots[g], provShut, fail)
       IN /\ slots' = [slots EXCEPT ![g] = drop.slots]
          /\ provShut' = drop.shut
          /\ calls' = [calls EXCEPT ![g] = CountCalls(@, drop.called)]
          /\ report' = [report EXCEPT ![g] =
                          [ op |-> "drop", held |-> slots[g], fail |-> fail,
                            called |-> <<>>,
                            result |-> ShutdownResult(<<>>),
                            dropCalled |-> drop.called,
                            stderr |-> drop.stderr ]]
    /\ guardState' = [guardState EXCEPT ![g] = "ShutDown"]
    /\ UNCHANGED otherThanGuard

GuardNext ==
    \/ \E g \in Guards, held \in SUBSET SignalSet : GuardNew(g, held)
    \/ \E g \in Guards, s \in SignalSet : GuardWithProvider(g, s)
    \/ \E g \in Guards : \E fail \in SUBSET HeldSignals(slots[g]) : GuardShutdown(g, fail)
    \/ \E g \in Guards : \E fail \in SUBSET HeldSignals(slots[g]) : GuardDrop(g, fail)

\* #[derive(Clone)] on OtelGuard: guard c becomes a clone of the live guard g.
\* Each Option<Sdk..Provider> is cloned, and a cloned provider is a handle to
\* the same provider, so the slots of c hold the providers of g.
GuardClone(g, c) ==
    /\ guardState[g] = "Active"
    /\ guardState[c] = "Uninitialized"
    /\ guardState' = [guardState EXCEPT ![c] = "Active"]
    /\ slots' = [slots EXCEPT ![c] = slots[g]]
    /\ UNCHANGED <<provShut, calls, report>>
    /\ UNCHANGED otherThanGuard

\* the guard operations together with clone
CloneNext ==
    \/ GuardNext
    \/ \E g \in Guards, c \in Guards : GuardClone(g, c)


(***************************************************************************)
(* Part 2: text, identities and the W3C trace-context wire format.         *)
(* Header values are sequences of one-character strings, so that            *)
(* formatting and parsing are computed and not assumed.                     *)
(***************************************************************************)
\* Option<T>: None is <<>>, Some(x) is <<x>>
None == <<>>

Some(x) == <<x>>

IsSome(o) == o # <<>>

Unwrap(o) == o[1]

\* Result<T, ()>
Ok(x) == [ ok |-> TRUE, val |-> x ]

Err == [ ok |-> FALSE, val |-> <<>> ]

HexDigits == <<"0", "1", "2", "3", "4", "5", "6", "7",
               "8", "9", "a", "b", "c", "d", "e", "f">>

UpperHexDigits == <<"0", "1", "2", "3", "4", "5", "6", "7",
                    "8", "9", "A", "B", "C", "D", "E", "F">>

\* hex characters of a trace id ("{:032x}") and of a span id ("{:016x}")
TraceIdHexLen == 32

SpanIdHexLen == 16

IsHexDigit(c) == \E v \in 0..15 : HexDigits[v + 1] = c \/ UpperHexDigits[v + 1] = c

HexVal(c) == CHOOSE v \in 0..15 : HexDigits[v + 1] = c \/ UpperHexDigits[v + 1] = c

\* char::is_ascii_uppercase on the characters a hex field can hold
IsAsciiUppercase(c) ==
    c \in {"A", "B", "C", "D", "E", "F", "G", "H", "I", "J", "K", "L", "M",
           "N", "O", "P", "Q", "R", "S", "T", "U", "V", "W", "X", "Y", "Z"}

\* "{:02x}" of one byte
ByteHex(b) == <<HexDigits[(b \div 16) + 1], HexDigits[(b % 16) + 1]>>

\* Display of TraceId / SpanId: lower-case hex, two characters per byte
RECURSIVE FormatHex(_)
FormatHex(bytes) ==
    IF bytes = <<>> THEN <<>> ELSE ByteHex(Head(bytes)) \o FormatHex(Tail(bytes))

\* u128 / u64 / u8 ::from_str_radix(chars, 16) into ndigits hex digits, as
\* big-endian bytes: the empty string and a non-hex character are errors, a
\* short string is the number it spells, a number too wide overflows
FromStrRadix16(chars, ndigits) ==
    IF chars = <<>> \/ \E i \in 1..Len(chars) : ~IsHexDigit(chars[i]) THEN Err
    ELSE LET extra == Len(chars) - ndigits
         IN IF extra > 0 /\ \E i \in 1..extra : chars[i] # "0" THEN Err
            ELSE LET digit(i) == IF i + extra < 1 THEN 0 ELSE HexVal(chars[i + extra])
                 IN Ok([j \in 1..(ndigits \div 2) |-> digit(2 * j - 1) * 16 + digit(2 * j)])

\* str::split_terminator(sep): the pieces between separators, without a
\* trailing empty piece
RECURSIVE SplitFrom(_, _, _, _)
SplitFrom(chars, sep, i, cur) ==
    IF i > Len(chars) THEN (IF cur = <<>> THEN <<>> ELSE <<cur>>)
    ELSE IF chars[i] = sep THEN <<cur>> \o SplitFrom(chars, sep, i + 1, <<>>)
    ELSE SplitFrom(chars, sep, i + 1, Append(cur, chars[i]))

SplitTerminator(chars, sep) == SplitFrom(chars, sep, 1, <<>>)

\* char::is_whitespace on the characters the inputs can hold
IsWhitespace(c) == c \in {" ", "\t", "\n", "\r"}

\* str::trim: leading and trailing whitespace removed
RECURSIVE TrimStart(_)
TrimStart(chars) ==
    IF chars # <<>> /\ IsWhitespace(Head(chars)) THEN TrimStart(Tail(chars)) ELSE chars

RECURSIVE TrimEnd(_)
TrimEnd(chars) ==
    IF chars # <<>> /\ IsWhitespace(chars[Len(chars)])
    THEN TrimEnd(SubSeq(chars, 1, Len(chars) - 1)) ELSE chars

Trim(chars) == TrimEnd(TrimStart(chars))

\* str::trim_start_matches(c)
RECURSIVE TrimStartMatches(_, _)
TrimStartMatches(chars, c) ==
    IF chars # <<>> /\ Head(chars) = c THEN TrimStartMatches(Tail(chars), c) ELSE chars

\* pieces joined with sep between them
RECURSIVE Join(_, _)
Join(pieces, sep) ==
    IF pieces = <<>> THEN <<>>
    ELSE IF Len(pieces) = 1 THEN pieces[1]
    ELSE pieces[1] \o <<sep>> \o Join(Tail(pieces), sep)

\* TraceState: an ordered list of <<key, value>> pairs
\* TraceState::header(): "k1=v1,k2=v2"
TraceStateHeader(ts) ==
    Join([i \in 1..Len(ts) |-> ts[i][1] \o <<"=">> \o ts[i][2]], ",")

KeyChars == {"a", "b", "c", "d", "e", "f", "g", "h", "i", "j", "k", "l", "m",
             "n", "o", "p", "q", "r", "s", "t", "u", "v", "w", "x", "y", "z",
             "0", "1", "2", "3", "4", "5", "6", "7", "8", "9",
             "_", "-", "*", "/", "@"}

\* TraceState::valid_key / valid_value
ValidKey(k) == k # <<>> /\ \A i \in 1..Len(k) : k[i] \in KeyChars

ValidValue(v) == \A i \in 1..Len(v) : v[i] \notin {",", "="}

IndexOf(chars, c) ==
    IF \E i \in 1..Len(chars) : chars[i] = c
    THEN CHOOSE i \in 1..Len(chars) : chars[i] = c /\ \A j \in 1..(i - 1) : chars[j] # c
    ELSE 0

\* TraceState::from_str: members split at ',', each split at its first '=';
\* a member without '=' or an invalid key or value is an error
TraceStateFromStr(chars) ==
    LET members == SplitTerminator(chars, ",")
        pair(m) == LET at == IndexOf(m, "=")
                   IN <<SubSeq(m, 1, at - 1),
                        TrimStartMatches(SubSeq(m, at, Len(m)), "=")>>
    IN IF \E i \in 1..Len(members) : IndexOf(members[i], "=") = 0 THEN Err
       ELSE LET pairs == [i \in 1..Len(members) |-> pair(members[i])]
            IN IF \A i \in 1..Len(pairs) : ValidKey(pairs[i][1]) /\ ValidValue(pairs[i][2])
               THEN Ok(pairs) ELSE Err

\* SpanContext::new(trace_id, span_id, trace_flags, is_remote, trace_state)
SpanContext(tid, sid, flags, remote, ts) ==
    [ trace_id |-> tid, span_id |-> sid, trace_flags |-> flags,
      is_remote |-> remote, trace_state |-> ts ]

ZeroBytes(n) == [i \in 1..n |-> 0]

\* TraceId::INVALID, SpanId::INVALID
InvalidTraceId == ZeroBytes(TraceIdHexLen \div 2)

InvalidSpanId == ZeroBytes(SpanIdHexLen \div 2)

\* SpanContext::NONE, what a context without a span answers
NoSpanContext == SpanContext(InvalidTraceId, InvalidSpanId, 0, FALSE, <<>>)

\* SpanContext::is_valid
IsValid(sc) == sc.trace_id # InvalidTraceId /\ sc.span_id # InvalidSpanId

\* TraceFlags::is_sampled: bit 0 of the flags byte
IsSampled(sc) == sc.trace_flags % 2 = 1

\* opentelemetry::Context, reduced to the span it carries (an Option)
EmptyContext == None

\* Context::with_remote_span_context
WithRemoteSpanContext(sc) == Some(sc)

\* cx.span().span_context()
SpanContextOf(cx) == IF IsSome(cx) THEN Unwrap(cx) ELSE NoSpanContext

\* an http::HeaderMap over the header names of the model
HeaderNames == {"traceparent", "tracestate", "x-request-id"}

EmptyHeaders == [n \in HeaderNames |-> None]

\* HeaderExtractor::get
HeaderGet(headers, name) == headers[name]

\* HeaderInjector::set (HeaderMap::insert)
HeaderSet(headers, name, value) == [headers EXCEPT ![name] = Some(value)]

(***************************************************************************)
(* Part 3: the global text-map propagator and the crate's four             *)
(* propagation functions.                                                   *)
(***************************************************************************)
\* the version this propagator writes
SupportedVersion == 0

\* TraceContextPropagator::extract_span_context
ExtractSpanContext(headers) ==
    LET raw   == HeaderGet(headers, "traceparent")
        value == Trim(IF IsSome(raw) THEN Unwrap(raw) ELSE <<>>)
        parts == SplitTerminator(value, "-")
    IN IF Len(parts) < 4 THEN Err
       ELSE LET version == FromStrRadix16(parts[1], 2)
                tid     == FromStrRadix16(parts[2], TraceIdHexLen)
                sid     == FromStrRadix16(parts[3], SpanIdHexLen)
                opts    == FromStrRadix16(parts[4], 2)
                state   == HeaderGet(headers, "tracestate")
                ts      == IF IsSome(state) THEN TraceStateFromStr(Unwrap(state)) ELSE Ok(<<>>)
            IN IF ~version.ok THEN Err
               ELSE IF version.val[1] > 254
                       \/ (version.val[1] = 0 /\ Len(parts) # 4) THEN Err
               ELSE IF \E i \in 1..Len(parts[2]) : IsAsciiUppercase(parts[2][i]) THEN Err
               ELSE IF ~tid.ok THEN Err
               ELSE IF \E i \in 1..Len(parts[3]) : IsAsciiUppercase(parts[3][i]) THEN Err
               ELSE IF ~sid.ok THEN Err
               ELSE IF ~opts.ok THEN Err
               ELSE IF version.val[1] = 0 /\ opts.val[1] > 2 THEN Err
               ELSE LET sc == SpanContext(tid.val, sid.val, opts.val[1] % 2, TRUE,
                                          IF ts.ok THEN ts.val ELSE <<>>)
                    IN IF IsValid(sc) THEN Ok(sc) ELSE Err

\* a bug: the headers are parsed whether or not a propagator is registered
PropagatorExtractUnregistered(prop, headers, current) ==
    LET r == ExtractSpanContext(headers)
    IN IF r.ok THEN WithRemoteSpanContext(r.val) ELSE current

\* TextMapPropagator::extract under the registered propagator, with `current`
\* the Context::current() of the calling thread: the no-op propagator answers
\* the current context; TraceContextPropagator answers the current context
\* with the remote span context of the headers, or the current context when
\* the headers hold no valid one
PropagatorExtract(prop, headers, current) ==
    IF prop = "Noop" THEN current
    ELSE LET r == ExtractSpanContext(headers)
         IN IF r.ok THEN WithRemoteSpanContext(r.val) ELSE current

\* a bug: the headers are written whatever the span context is
PropagatorInjectUnchecked(prop, cx, headers) ==
    IF prop = "Noop" THEN headers
    ELSE LET sc == SpanContextOf(cx)
             value == ByteHex(SupportedVersion) \o <<"-">> \o FormatHex(sc.trace_id)
                      \o <<"-">> \o FormatHex(sc.span_id)
                      \o <<"-">> \o ByteHex(sc.trace_flags % 2)
         IN HeaderSet(HeaderSet(headers, "traceparent", value),
                      "tracestate", TraceStateHeader(sc.trace_state))

\* TextMapPropagator::inject_context under the registered propagator: the
\* no-op propagator writes nothing; TraceContextPropagator writes traceparent
\* ("{:02x}-{}-{}-{:02x}") and tracestate when the span context is valid
PropagatorInject(prop, cx, headers) ==
    IF prop = "Noop" THEN headers
    ELSE LET sc == SpanContextOf(cx)
             value == ByteHex(SupportedVersion) \o <<"-">> \o FormatHex(sc.trace_id)
                      \o <<"-">> \o FormatHex(sc.span_id)
                      \o <<"-">> \o ByteHex(sc.trace_flags % 2)
         IN IF IsValid(sc)
            THEN HeaderSet(HeaderSet(headers, "traceparent", value),
                           "tracestate", TraceStateHeader(sc.trace_state))
            ELSE headers

\* a bug: the extractor is built over an empty header map
extract_ignoring_headers(prop, headers, current) ==
    PropagatorExtract(prop, EmptyHeaders, current)

\* a bug: the injector writes into a copy of the carrier's headers
inject_into_copy(prop, cx, headers) == headers

\* extract_context_from_headers / extract_context_from_request
extract_context_from_headers(prop, headers, current) ==
    PropagatorExtract(prop, headers, current)

\* inject_context_into_request
inject_context_into_request(prop, cx, headers) ==
    PropagatorInject(prop, cx, headers)

\* inject_context_into_response
inject_context_into_response(prop, cx, headers) ==
    PropagatorInject(prop, cx, headers)

(***************************************************************************)
(* Part 4: the inputs of the model: identities, headers, contexts.         *)
(***************************************************************************)
\* 4bf92f3577b34da6a3ce929d0e0e4736 and 00f067aa0ba902b7, the identity of
\* the crate's tests
ExampleTraceId ==
    <<75, 249, 47, 53, 119, 179, 77, 166, 163, 206, 146, 157, 14, 14, 71,
      54>>

ExampleSpanId == <<0, 240, 103, 170, 11, 169, 2, 183>>

ExampleTraceIdHex ==
    <<"4", "b", "f", "9", "2", "f", "3", "5", "7", "7", "b", "3", "4", "d",
      "a", "6", "a", "3", "c", "e", "9", "2", "9", "d", "0", "e", "0", "e",
      "4", "7", "3", "6">>

ExampleSpanIdHex ==
    <<"0", "0", "f", "0", "6", "7", "a", "a", "0", "b", "a", "9", "0", "2",
      "b", "7">>

\* a second remote identity: 0af7651916cd43dd8448eb211c80319c, b7ad6b7169203331
OtherTraceId ==
    <<10, 247, 101, 25, 22, 205, 67, 221, 132, 72, 235, 33, 28, 128, 49,
      156>>

OtherSpanId == <<183, 173, 107, 113, 105, 32, 51, 49>>

OtherTraceIdHex ==
    <<"0", "a", "f", "7", "6", "5", "1", "9", "1", "6", "c", "d", "4", "3",
      "d", "d", "8", "4", "4", "8", "e", "b", "2", "1", "1", "c", "8", "0",
      "3", "1", "9", "c">>

\* "00-4bf92f3577b34da6a3ce929d0e0e4736-00f067aa0ba902b7-01"
ExampleTraceparent ==
    <<"0", "0", "-", "4", "b", "f", "9", "2", "f", "3", "5", "7", "7", "b",
      "3", "4", "d", "a", "6", "a", "3", "c", "e", "9", "2", "9", "d", "0",
      "e", "0", "e", "4", "7", "3", "6", "-", "0", "0", "f", "0", "6", "7",
      "a", "a", "0", "b", "a", "9", "0", "2", "b", "7", "-", "0", "1">>

\* "00-0af7651916cd43dd8448eb211c80319c-b7ad6b7169203331-00"
OtherTraceparent ==
    <<"0", "0", "-", "0", "a", "f", "7", "6", "5", "1", "9", "1", "6", "c",
      "d", "4", "3", "d", "d", "8", "4", "4", "8", "e", "b", "2", "1", "1",
      "c", "8", "0", "3", "1", "9", "c", "-", "b", "7", "a", "d", "6", "b",
      "7", "1", "6", "9", "2", "0", "3", "3", "3", "1", "-", "0", "0">>

\* "invalid"
InvalidTraceparent == <<"i", "n", "v", "a", "l", "i", "d">>

\* well-formed, but the trace id is the all-zero id
ZeroTraceparent ==
    <<"0", "0", "-", "0", "0", "0", "0", "0", "0", "0", "0", "0", "0", "0",
      "0", "0", "0", "0", "0", "0", "0", "0", "0", "0", "0", "0", "0", "0",
      "0", "0", "0", "0", "0", "0", "0", "-", "0", "0", "f", "0", "6", "7",
      "a", "a", "0", "b", "a", "9", "0", "2", "b", "7", "-", "0", "1">>

\* the trace id in upper case
UpperTraceparent ==
    <<"0", "0", "-", "4", "B", "F", "9", "2", "F", "3", "5", "7", "7", "B",
      "3", "4", "D", "A", "6", "A", "3", "C", "E", "9", "2", "9", "D", "0",
      "E", "0", "E", "4", "7", "3", "6", "-", "0", "0", "f", "0", "6", "7",
      "a", "a", "0", "b", "a", "9", "0", "2", "b", "7", "-", "0", "1">>

\* "key1=value1,key2=value2" and its pairs, and the same pairs reversed
ExampleTracestate ==
    <<"k", "e", "y", "1", "=", "v", "a", "l", "u", "e", "1", ",", "k", "e",
      "y", "2", "=", "v", "a", "l", "u", "e", "2">>

ExampleTraceStatePairs ==
    << <<<<"k", "e", "y", "1">>, <<"v", "a", "l", "u", "e", "1">>>>,
       <<<<"k", "e", "y", "2">>, <<"v", "a", "l", "u", "e", "2">>>> >>

ReversedTraceStatePairs ==
    << <<<<"k", "e", "y", "2">>, <<"v", "a", "l", "u", "e", "2">>>>,
       <<<<"k", "e", "y", "1">>, <<"v", "a", "l", "u", "e", "1">>>> >>

\* "req-1"
ExampleRequestId == <<"r", "e", "q", "-", "1">>

\* the ids the tracer's RandomIdGenerator hands out (never the zero id)
FreshIds ==
    { [ trace_id |-> [i \in 1..(TraceIdHexLen \div 2) |-> 17],
        span_id  |-> [i \in 1..(SpanIdHexLen \div 2) |-> 34] ],
      [ trace_id |-> [i \in 1..(TraceIdHexLen \div 2) |-> IF i = 1 THEN 0 ELSE 171],
        span_id  |-> [i \in 1..(SpanIdHexLen \div 2) |-> 205] ] }

\* the headers of an incoming request
WithTraceparent(value) == HeaderSet(EmptyHeaders, "traceparent", value)

RequestHeaders ==
    { EmptyHeaders,
      HeaderSet(EmptyHeaders, "x-request-id", ExampleRequestId),
      WithTraceparent(ExampleTraceparent),
      HeaderSet(WithTraceparent(OtherTraceparent), "tracestate", ExampleTracestate),
      WithTraceparent(InvalidTraceparent),
      WithTraceparent(ZeroTraceparent),
      WithTraceparent(UpperTraceparent) }

\* the requests that carry a syntactically valid traceparent, each with the
\* trace id its header spells
ValidTraceparentRequests ==
    { [ headers |-> WithTraceparent(ExampleTraceparent), hex |-> ExampleTraceIdHex ],
      [ headers |-> HeaderSet(WithTraceparent(OtherTraceparent), "tracestate",
                              ExampleTracestate),
        hex |-> OtherTraceIdHex ] }

\* the requests with no traceparent or a malformed one
NoParentRequests ==
    { EmptyHeaders,
      HeaderSet(EmptyHeaders, "x-request-id", ExampleRequestId),
      WithTraceparent(InvalidTraceparent),
      WithTraceparent(UpperTraceparent) }

\* the span contexts a caller may hand to inject: valid and invalid ids,
\* every sampling flag, empty and non-empty vendor state
SpanContextInputs ==
    { SpanContext(tid, sid, flags, FALSE, ts) :
        tid \in {ExampleTraceId, InvalidTraceId},
        sid \in {ExampleSpanId, InvalidSpanId},
        flags \in {0, 1, 3},
        ts \in {<<>>, ExampleTraceStatePairs, ReversedTraceStatePairs} }

ContextInputs == {EmptyContext} \cup {Some(sc) : sc \in SpanContextInputs}

\* Context::current() of the calling thread: empty, or inside a local span
AmbientSpanContext == SpanContext(OtherTraceId, ExampleSpanId, 1, FALSE, <<>>)

CurrentContexts == {EmptyContext, Some(AmbientSpanContext)}

\* the carriers a caller injects into: a new request or response, or one that
\* already has headers
CarrierInputs ==
    { EmptyHeaders, HeaderSet(EmptyHeaders, "x-request-id", ExampleRequestId) }

(***************************************************************************)
(* Part 5: spans (tracing with the tracing-opentelemetry layer) and the    *)
(* span-creating functions of the crates.                                  *)
(***************************************************************************)
\* tracing::Level, from the least to the most verbose
Levels == <<"ERROR", "WARN", "INFO", "DEBUG", "TRACE">>

LevelRank(l) == CHOOSE i \in 1..Len(Levels) : Levels[i] = l

\* the levels the model hands to span creation and to the filter
LevelInputs == {"INFO", "TRACE"}

\* a span is enabled when a subscriber is installed and its filter lets the
\* span's level through
SpanEnabled(sub, level) == IsSome(sub) /\ LevelRank(level) <= LevelRank(Unwrap(sub))

\* dyn_span!(level, "request", .., trace_id = Empty): a new span. An enabled
\* span has its OpenTelemetry data in the builder state, with the current
\* context as parent; a disabled span has no data and no fields.
NewSpan(sub, level, current) ==
    [ enabled   |-> SpanEnabled(sub, level),
      started   |-> FALSE,
      parent_cx |-> IF SpanEnabled(sub, level) THEN current ELSE EmptyContext,
      otel      |-> NoSpanContext,
      trace_id  |-> None ]

\* the layer starts the span: the trace id is the parent's when the parent
\* context holds a valid span context, and a newly generated one otherwise
StartSpan(span, fresh) ==
    IF ~span.enabled \/ span.started THEN span
    ELSE LET parent == SpanContextOf(span.parent_cx)
         IN [ span EXCEPT
                !.started = TRUE,
                !.otel = SpanContext(
                    IF IsValid(parent) THEN parent.trace_id ELSE fresh.trace_id,
                    fresh.span_id,
                    IF IsValid(parent) THEN parent.trace_flags ELSE 1,
                    FALSE,
                    IF IsValid(parent) THEN parent.trace_state ELSE <<>>) ]

\* OpenTelemetrySpanExt::set_parent: an error for a disabled span and for a
\* span that was already started, otherwise the builder's parent is replaced
SetParent(span, cx) ==
    IF ~span.enabled THEN [ span |-> span, result |-> "SpanDisabled" ]
    ELSE IF span.started THEN [ span |-> span, result |-> "AlreadyStarted" ]
    ELSE [ span |-> [span EXCEPT !.parent_cx = cx], result |-> "Ok" ]

\* OpenTelemetrySpanExt::context: starts the span if need be and answers its
\* context; a disabled span answers the empty context
SpanContextCall(span, fresh) ==
    IF ~span.enabled THEN [ span |-> span, cx |-> EmptyContext ]
    ELSE LET s == StartSpan(span, fresh) IN [ span |-> s, cx |-> Some(s.otel) ]

\* Span::record(TRACE_ID, display(trace_id)): nothing on a disabled span
RecordTraceId(span, tid) ==
    IF span.enabled THEN [span EXCEPT !.trace_id = Some(FormatHex(tid))] ELSE span

\* what set_otel_parent leaves behind: the span, what set_parent answered,
\* the warn! events and the lines on standard error
Outcome(span, set_parent, warn, stderr) ==
    [ span |-> span, set_parent |-> set_parent, warn |-> warn, stderr |-> stderr ]

\* a bug: the trace id is read (which starts the span) before the parent is set
set_otel_parent_read_first(prop, headers, span, current, fresh) ==
    LET remote == extract_context_from_headers(prop, headers, current)
        got    == SpanContextCall(span, fresh)
        set    == SetParent(got.span, remote)
    IN Outcome(RecordTraceId(set.span, SpanContextOf(got.cx).trace_id),
               set.result,
               <<>>,
               IF set.result = "Ok" THEN <<>> ELSE <<set.result>>)

\* a bug: the span is returned without the trace id being recorded
set_otel_parent_no_record(prop, headers, span, current, fresh) ==
    LET remote == extract_context_from_headers(prop, headers, current)
        set    == SetParent(span, remote)
        got    == SpanContextCall(set.span, fresh)
    IN Outcome(got.span,
               set.result,
               <<>>,
               IF set.result = "Ok" THEN <<>> ELSE <<set.result>>)

\* trace::context::set_otel_parent: a failure of set_parent goes to standard
\* error (eprintln!)
set_otel_parent(prop, headers, span, current, fresh) ==
    LET remote == extract_context_from_headers(prop, headers, current)
        set    == SetParent(span, remote)
        got    == SpanContextCall(set.span, fresh)
    IN Outcome(RecordTraceId(got.span, SpanContextOf(got.cx).trace_id),
               set.result,
               <<>>,
               IF set.result = "Ok" THEN <<>> ELSE <<set.result>>)

\* http::context::set_otel_parent: a failure of set_parent is a warn! event
http_set_otel_parent(prop, headers, span, current, fresh) ==
    LET remote == extract_context_from_headers(prop, headers, current)
        set    == SetParent(span, remote)
        got    == SpanContextCall(set.span, fresh)
    IN Outcome(RecordTraceId(got.span, SpanContextOf(got.cx).trace_id),
               set.result,
               IF set.result = "Ok" THEN <<>> ELSE <<set.result>>,
               <<>>)

\* trace::span::make_request_span
make_request_span(prop, sub, level, headers, current, fresh) ==
    set_otel_parent(prop, headers, NewSpan(sub, level, current), current, fresh)

\* http::span::make_request_span
http_make_request_span(prop, sub, level, headers, current, fresh) ==
    http_set_otel_parent(prop, headers, NewSpan(sub, level, current), current, fresh)

\* a bug: the new span is entered (and so started) before its parent is set
make_span_entered_first(prop, sub, level, headers, current, fresh) ==
    set_otel_parent(prop, headers, StartSpan(NewSpan(sub, level, current), fresh),
                    current, fresh)

\* AxumOtelSpanCreator::make_span, for a creator of the given level
make_span(prop, sub, level, headers, current, fresh) ==
    set_otel_parent(prop, headers, NewSpan(sub, level, current), current, fresh)

NoSpan == NewSpan(None, "INFO", EmptyContext)

\* the request lines the model hands to span creation: "GET" and "POST", with
\* or without a MatchedPath extension ("/users/{id}")
Methods == { <<"G", "E", "T">>, <<"P", "O", "S", "T">> }

MatchedPaths ==
    { None, Some(<<"/", "u", "s", "e", "r", "s", "/", "{", "i", "d", "}">>) }

\* the name dyn_span! gives every span: "request"
RequestSpanName == <<"r", "e", "q", "u", "e", "s", "t">>

\* make_span: http_route.map_or_else(|| method, |route| format!("{method} {route}"))
span_name(http_method, http_route) ==
    IF IsSome(http_route)
    THEN http_method \o <<" ">> \o Unwrap(http_route)
    ELSE http_method

\* the name fields dyn_span! is given by AxumOtelSpanCreator::make_span:
\* otel.name = span_name, http.route = http_route
make_span_fields(http_method, http_route) ==
    [ name       |-> RequestSpanName,
      otel_name  |-> Some(span_name(http_method, http_route)),
      http_route |-> http_route ]

\* the name fields dyn_span! is given by trace::span::make_request_span:
\* otel.name = Empty, http.route = Empty
make_request_span_fields(http_method) ==
    [ name       |-> RequestSpanName,
      otel_name  |-> None,
      http_route |-> None ]

\* the same fields in http::span::make_request_span
http_make_request_span_fields(http_method) ==
    [ name       |-> RequestSpanName,
      otel_name  |-> None,
      http_route |-> None ]

\* OpenTelemetryLayer: the span is exported under the value of its otel.name
\* field when that is recorded, and under the span's own name otherwise
ExportedName(fields) ==
    IF IsSome(fields.otel_name) THEN Unwrap(fields.otel_name) ELSE fields.name

\* the request line a span was made for, and the span's name fields
SpanName(method, route, fields) ==
    [ method |-> method, route |-> route, fields |-> fields ]

NoSpanName == SpanName(<<>>, None, make_request_span_fields(<<>>))

\* the record of an operation: its inputs and everything it produced
HttpOp(op, module, headers, cx, current, started, outcome, carrier, out, prop) ==
    [ op |-> op, module |-> module, headers |-> headers, cx |-> cx,
      current |-> current, started |-> started,
      span |-> outcome.span, set_parent |-> outcome.set_parent,
      warn |-> outcome.warn, stderr |-> outcome.stderr,
      carrier |-> carrier, out |-> out, prop |-> prop ]

NoOutcome == Outcome(NoSpan, "Ok", <<>>, <<>>)

\* no operation is on record
NoHttpOp ==
    HttpOp("none", "none", EmptyHeaders, EmptyContext, EmptyContext,
           FALSE, NoOutcome, EmptyHeaders, EmptyContext, "Noop")

\* the model keeps one operation on record at a time
Idle == httpOp = NoHttpOp

HttpInit ==
    /\ propagator = "Noop"
    /\ subscriber = None
    /\ httpOp = NoHttpOp
    /\ spanName = NoSpanName

\* init_tracing_subscriber, as far as spans go: the registry with the
\* OpenTelemetry layer and the EnvFilter becomes the global subscriber
\* (filter: the most verbose level the EnvFilter lets through)
InitTracingSubscriber(filter) ==
    /\ subscriber = None
    /\ subscriber' = Some(filter)
    /\ UNCHANGED <<propagator, httpOp, spanName>>
    /\ UNCHANGED otherThanHttp

\* a request reaches AxumOtelSpanCreator::make_span
MakeSpan(level, method, route, headers, current, fresh) ==
    /\ Idle
    /\ httpOp' = HttpOp("make_span", "trace", headers, EmptyContext, current, FALSE,
                        make_span(propagator, subscriber, level, headers, current, fresh),
                        EmptyHeaders, EmptyContext, propagator)
    /\ spanName' = SpanName(method, route, make_span_fields(method, route))
    /\ UNCHANGED <<propagator, subscriber>>
    /\ UNCHANGED otherThanHttp

\* a caller makes a span with make_request_span of module trace or http
MakeRequestSpan(module, level, method, route, headers, current, fresh) ==
    /\ Idle
    /\ httpOp' = HttpOp("make_request_span", module, headers, EmptyContext, current, FALSE,
                        IF module = "http"
                        THEN http_make_request_span(propagator, subscriber, level,
                                                    headers, current, fresh)
                        ELSE make_request_span(propagator, subscriber, level,
                                               headers, current, fresh),
                        EmptyHeaders, EmptyContext, propagator)
    /\ spanName' = SpanName(method, route,
                            IF module = "http"
                            THEN http_make_request_span_fields(method)
                            ELSE make_request_span_fields(method))
    /\ UNCHANGED <<propagator, subscriber>>
    /\ UNCHANGED otherThanHttp

\* a caller hands set_otel_parent a span of its own, which it may already
\* have started (started: it asked for the span's context or entered it)
SetOtelParent(module, level, started, headers, current, fresh, fresh2) ==
    /\ Idle
    /\ LET new  == NewSpan(subscriber, level, current)
           span == IF started THEN StartSpan(new, fresh2) ELSE new
       IN httpOp' = HttpOp("set_otel_parent", module, headers, EmptyContext, current,
                           span.started,
                           IF module = "http"
                           THEN http_set_otel_parent(propagator, headers, span, current, fresh)
                           ELSE set_otel_parent(propagator, headers, span, current, fresh),
                           EmptyHeaders, EmptyContext, propagator)
    /\ UNCHANGED <<propagator, subscriber, spanName>>
    /\ UNCHANGED otherThanHttp

\* inject_context_into_request / inject_context_into_response on a carrier
Inject(op, cx, carrier) ==
    /\ Idle
    /\ httpOp' = HttpOp(op, "http", carrier, cx, EmptyContext, FALSE, NoOutcome,
                        IF op = "inject_request"
                        THEN inject_context_into_request(propagator, cx, carrier)
                        ELSE inject_context_into_response(propagator, cx, carrier),
                        EmptyContext, propagator)
    /\ UNCHANGED <<propagator, subscriber, spanName>>
    /\ UNCHANGED otherThanHttp

\* extract_context_from_headers on the headers of a request
Extract(headers, current) ==
    /\ Idle
    /\ httpOp' = HttpOp("extract", "http", headers, EmptyContext, current, FALSE, NoOutcome,
                        EmptyHeaders,
                        extract_context_from_headers(propagator, headers, current),
                        propagator)
    /\ UNCHANGED <<propagator, subscriber, spanName>>
    /\ UNCHANGED otherThanHttp

\* extract_context_from_headers on the carrier the last inject wrote: the
\* record keeps the injected context (cx), the carrier it was injected into
\* (headers) and the propagator in place at the inject (prop)
ExtractInjected(current) ==
    /\ httpOp.op \in {"inject_request", "inject_response"}
    /\ httpOp' = [httpOp EXCEPT
                    !.op = "round_trip",
                    !.current = current,
                    !.out = extract_context_from_headers(propagator, httpOp.carrier, current)]
    /\ UNCHANGED <<propagator, subscriber, spanName>>
    /\ UNCHANGED otherThanHttp

\* the caller is done with the span, carrier or context it was given
Finish ==
    /\ ~Idle
    /\ httpOp' = NoHttpOp
    /\ spanName' = NoSpanName
    /\ UNCHANGED <<propagator, subscriber>>
    /\ UNCHANGED otherThanHttp

(***************************************************************************)
(* Part 6: the OTLP exporter protocol                                      *)
(* (crates/tracing-opentelemetry/src/otel.rs).                             *)
(***************************************************************************)
\* the names of the environment variables
OTEL_EXPORTER_OTLP_PROTOCOL == "OTEL_EXPORTER_OTLP_PROTOCOL"

OTEL_EXPORTER_OTLP_TRACES_PROTOCOL == "OTEL_EXPORTER_OTLP_TRACES_PROTOCOL"

OTEL_EXPORTER_OTLP_METRICS_PROTOCOL == "OTEL_EXPORTER_OTLP_METRICS_PROTOCOL"

OTEL_EXPORTER_OTLP_LOGS_PROTOCOL == "OTEL_EXPORTER_OTLP_LOGS_PROTOCOL"

EnvKeys ==
    { OTEL_EXPORTER_OTLP_PROTOCOL, OTEL_EXPORTER_OTLP_TRACES_PROTOCOL,
      OTEL_EXPORTER_OTLP_METRICS_PROTOCOL, OTEL_EXPORTER_OTLP_LOGS_PROTOCOL }

\* the signal-specific variable each exporter builder reads
SignalEnv ==
    [ tracer |-> OTEL_EXPORTER_OTLP_TRACES_PROTOCOL,
      meter  |-> OTEL_EXPORTER_OTLP_METRICS_PROTOCOL,
      logger |-> OTEL_EXPORTER_OTLP_LOGS_PROTOCOL ]

\* opentelemetry_otlp::Protocol
Protocols == {"Grpc", "HttpBinary", "HttpJson"}

\* what the environment holds for a variable: nothing, a text, or a value
\* that is not valid Unicode (std::env::var answers Err(NotUnicode))
Unset == [ present |-> FALSE, unicode |-> TRUE, text |-> <<>> ]

EnvText(chars) == [ present |-> TRUE, unicode |-> TRUE, text |-> chars ]

NotUnicode == [ present |-> TRUE, unicode |-> FALSE, text |-> <<>> ]

UpperLetters ==
    <<"A", "B", "C", "D", "E", "F", "G", "H", "I", "J", "K", "L", "M", 
      "N", "O", "P", "Q", "R", "S", "T", "U", "V", "W", "X", "Y", "Z">>

LowerLetters ==
    <<"a", "b", "c", "d", "e", "f", "g", "h", "i", "j", "k", "l", "m", 
      "n", "o", "p", "q", "r", "s", "t", "u", "v", "w", "x", "y", "z">>

\* char::to_ascii_lowercase
CharToAsciiLowercase(c) ==
    IF IsAsciiUppercase(c)
    THEN LowerLetters[CHOOSE i \in 1..Len(UpperLetters) : UpperLetters[i] = c]
    ELSE c

\* str::to_ascii_lowercase
ToAsciiLowercase(chars) == [i \in 1..Len(chars) |-> CharToAsciiLowercase(chars[i])]

GrpcText == <<"g", "r", "p", "c">>

HttpProtobufText ==
    <<"h", "t", "t", "p", "/", "p", "r", "o", "t", "o", "b", "u", "f">>

HttpProtoText == <<"h", "t", "t", "p", "/", "p", "r", "o", "t", "o">>

HttpJsonText == <<"h", "t", "t", "p", "/", "j", "s", "o", "n">>

\* a bug: the value is matched as it stands, without trim and case folding
parse_protocol_verbatim(value) ==
    IF value = GrpcText THEN Some("Grpc")
    ELSE IF value \in {HttpProtobufText, HttpProtoText} THEN Some("HttpBinary")
    ELSE IF value = HttpJsonText THEN Some("HttpJson")
    ELSE None

\* parse_protocol: match value.trim().to_ascii_lowercase()
parse_protocol(value) ==
    LET v == ToAsciiLowercase(Trim(value))
    IN IF v = GrpcText THEN Some("Grpc")
       ELSE IF v \in {HttpProtobufText, HttpProtoText} THEN Some("HttpBinary")
       ELSE IF v = HttpJsonText THEN Some("HttpJson")
       ELSE None

\* std::env::var(key): the value, or an error when the variable is unset or
\* not Unicode
env_var(e, key) ==
    IF e[key].present /\ e[key].unicode THEN Ok(e[key].text) ELSE Err

\* protocol_from_env: env::var(key).ok().and_then(parse_protocol)
protocol_from_env(e, key) ==
    LET r == env_var(e, key) IN IF r.ok THEN parse_protocol(r.val) ELSE None

\* a bug: a signal without a value of its own takes any other signal's value
\* before the global one
protocol_for_signal_any_override(e, signal_env) ==
    LET set == {k \in EnvKeys \ {OTEL_EXPORTER_OTLP_PROTOCOL} :
                    IsSome(protocol_from_env(e, k))}
        own == protocol_from_env(e, signal_env)
        glob == protocol_from_env(e, OTEL_EXPORTER_OTLP_PROTOCOL)
    IN IF IsSome(own) THEN Unwrap(own)
       ELSE IF set # {} THEN Unwrap(protocol_from_env(e, CHOOSE k \in set : TRUE))
       ELSE IF IsSome(glob) THEN Unwrap(glob)
       ELSE "Grpc"

\* protocol_for_signal: the signal's variable, or else the global one, or
\* else gRPC
protocol_for_signal(e, signal_env) ==
    LET own == protocol_from_env(e, signal_env)
        glob == protocol_from_env(e, OTEL_EXPORTER_OTLP_PROTOCOL)
    IN IF IsSome(own) THEN Unwrap(own)
       ELSE IF IsSome(glob) THEN Unwrap(glob)
       ELSE "Grpc"

\* an exporter: the signal it serves, the protocol resolved for it, the
\* builder used (with_tonic for gRPC, with_http otherwise) and whether the
\* build succeeded
Exporter(signal, protocol, ok) ==
    [ signal    |-> signal,
      protocol  |-> protocol,
      transport |-> IF protocol = "Grpc" THEN "tonic" ELSE "http",
      ok        |-> ok ]

NoExporter == [ signal |-> "none", protocol |-> "Grpc", transport |-> "none", ok |-> FALSE ]

\* build_span_exporter / build_metric_exporter / build_log_exporter (ok: the
\* builder's build() succeeds)
build_span_exporter(e, ok) ==
    Exporter("tracer", protocol_for_signal(e, OTEL_EXPORTER_OTLP_TRACES_PROTOCOL), ok)

build_metric_exporter(e, ok) ==
    Exporter("meter", protocol_for_signal(e, OTEL_EXPORTER_OTLP_METRICS_PROTOCOL), ok)

build_log_exporter(e, ok) ==
    Exporter("logger", protocol_for_signal(e, OTEL_EXPORTER_OTLP_LOGS_PROTOCOL), ok)

\* the values the model gives a variable: unset, the four recognized
\* spellings, " HTTP/Json\n" (blanks and capitals), "http" (not recognized)
\* and a value that is not Unicode
PaddedHttpJsonText == <<" ", "H", "T", "T", "P", "/", "J", "s", "o", "n", "\n">>

UnrecognizedText == <<"h", "t", "t", "p">>

EnvValues ==
    { Unset, EnvText(GrpcText), EnvText(HttpProtobufText), EnvText(HttpProtoText),
      EnvText(HttpJsonText), EnvText(PaddedHttpJsonText), EnvText(UnrecognizedText),
      NotUnicode }

ProtocolInit ==
    /\ env = [k \in EnvKeys |-> Unset]
    /\ exporter = NoExporter

\* the environment is set up (by the launching shell or std::env::set_var)
\* while no exporter is being built
SetEnv(key, value) ==
    /\ exporter = NoExporter
    /\ env[key] # value
    /\ env' = [env EXCEPT ![key] = value]
    /\ UNCHANGED exporter
    /\ UNCHANGED otherThanProtocol

BuildSpanExporter(ok) ==
    /\ exporter = NoExporter
    /\ exporter' = build_span_exporter(env, ok)
    /\ UNCHANGED env
    /\ UNCHANGED otherThanProtocol

BuildMetricExporter(ok) ==
    /\ exporter = NoExporter
    /\ exporter' = build_metric_exporter(env, ok)
    /\ UNCHANGED env
    /\ UNCHANGED otherThanProtocol

BuildLogExporter(ok) ==
    /\ exporter = NoExporter
    /\ exporter' = build_log_exporter(env, ok)
    /\ UNCHANGED env
    /\ UNCHANGED otherThanProtocol

\* the exporter moves into its provider, or is dropped with the error
ExporterConsumed ==
    /\ exporter # NoExporter
    /\ exporter' = NoExporter
    /\ UNCHANGED env
    /\ UNCHANGED otherThanProtocol

ProtocolNext ==
    \/ \E key \in EnvKeys, value \in EnvValues : SetEnv(key, value)
    \/ \E ok \in BOOLEAN : BuildSpanExporter(ok)
    \/ \E ok \in BOOLEAN : BuildMetricExporter(ok)
    \/ \E ok \in BOOLEAN : BuildLogExporter(ok)
    \/ ExporterConsumed

(***************************************************************************)
(* Part 7: building the providers and registering them                     *)
(* (crates/tracing-opentelemetry/src/otel.rs, src/subscriber.rs,           *)
(* crates/tracing-otel/src/logger/subscriber.rs).                          *)
(***************************************************************************)
\* global::set_tracer_provider / global::set_meter_provider: the provider
\* becomes the global default of its signal, replacing the one before
SetGlobalProvider(glob, s, p) == [glob EXCEPT ![s] = p]

\* what an init_*_provider call leaves behind: its result, the global
\* propagator and the global providers
InitResult(result, prop, glob) == [ result |-> result, propagator |-> prop, global |-> glob ]

\* a bug: the provider is returned without being registered
init_meter_provider_unregistered(e, prop, glob, p, ok) ==
    IF build_metric_exporter(e, ok).ok
    THEN InitResult(Ok(p), prop, glob)
    ELSE InitResult(Err, prop, glob)

\* init_tracer_provider: registers TraceContextPropagator, builds the span
\* exporter (an error returns here), builds the provider p and registers it
init_tracer_provider(e, prop, glob, p, ok) ==
    IF build_span_exporter(e, ok).ok
    THEN InitResult(Ok(p), "TraceContext", SetGlobalProvider(glob, "tracer", p))
    ELSE InitResult(Err, "TraceContext", glob)

\* init_meter_provider: builds the metric exporter (an error returns here),
\* builds the provider p and registers it
init_meter_provider(e, prop, glob, p, ok) ==
    IF build_metric_exporter(e, ok).ok
    THEN InitResult(Ok(p), prop, SetGlobalProvider(glob, "meter", p))
    ELSE InitResult(Err, prop, glob)

\* init_logger_provider: builds the log exporter (an error returns here) and
\* the provider p; nothing is registered
init_logger_provider(e, prop, glob, p, ok) ==
    IF build_log_exporter(e, ok).ok
    THEN InitResult(Ok(p), prop, glob)
    ELSE InitResult(Err, prop, glob)

\* the provider the next build of signal s makes
NextProvider(s) == <<built[s] + 1, s>>

\* the record of an initialisation call: the function, the signal it is for
\* and its result ("Ok", "Err" or "panic"), the provider or guard returned
InitOp(fn, signal, result, provider, guard) ==
    [ fn |-> fn, signal |-> signal, result |-> result, provider |-> provider,
      guard |-> guard ]

NoInitOp == InitOp("none", "none", "Ok", NoProvider, 0)

ProviderInit ==
    /\ globalProvider = [s \in SignalSet |-> NoProvider]
    /\ built = [s \in SignalSet |-> 0]
    /\ initOp = NoInitOp

\* a caller runs init_tracer_provider (ok: the exporter builds)
InitTracerProvider(ok) ==
    /\ built["tracer"] < MaxGuards
    /\ LET r == init_tracer_provider(env, propagator, globalProvider,
                                     NextProvider("tracer"), ok)
       IN /\ propagator' = r.propagator
          /\ globalProvider' = r.global
          /\ built' = IF r.result.ok THEN [built EXCEPT !["tracer"] = @ + 1] ELSE built
          /\ initOp' = InitOp("init_tracer_provider", "tracer",
                              IF r.result.ok THEN "Ok" ELSE "Err",
                              IF r.result.ok THEN r.result.val ELSE NoProvider, 0)
    /\ UNCHANGED <<subscriber, httpOp, spanName>>
    /\ UNCHANGED <<guardVars, protocolVars, layerVars, configVars, parseVars>>

\* a caller runs init_meter_provider
InitMeterProvider(ok) ==
    /\ built["meter"] < MaxGuards
    /\ LET r == init_meter_provider(env, propagator, globalProvider,
                                    NextProvider("meter"), ok)
       IN /\ globalProvider' = r.global
          /\ built' = IF r.result.ok THEN [built EXCEPT !["meter"] = @ + 1] ELSE built
          /\ initOp' = InitOp("init_meter_provider", "meter",
                              IF r.result.ok THEN "Ok" ELSE "Err",
                              IF r.result.ok THEN r.result.val ELSE NoProvider, 0)
    /\ UNCHANGED <<httpVars, guardVars, protocolVars, layerVars, configVars, parseVars>>

\* a caller runs init_logger_provider
InitLoggerProvider(ok) ==
    /\ built["logger"] < MaxGuards
    /\ LET r == init_logger_provider(env, propagator, globalProvider,
                                     NextProvider("logger"), ok)
       IN /\ globalProvider' = r.global
          /\ built' = IF r.result.ok THEN [built EXCEPT !["logger"] = @ + 1] ELSE built
          /\ initOp' = InitOp("init_logger_provider", "logger",
                              IF r.result.ok THEN "Ok" ELSE "Err",
                              IF r.result.ok THEN r.result.val ELSE NoProvider, 0)
    /\ UNCHANGED <<httpVars, guardVars, protocolVars, layerVars, configVars, parseVars>>

\* init_tracing_subscriber: the registry with the layers and the filter
\* becomes the global subscriber (init() panics when one is already set), and
\* the providers go into a new OtelGuard
init_tracing_subscriber(sub, filter, tracer_provider, meter_provider, logger_provider) ==
    IF IsSome(sub)
    THEN [ result |-> "panic", subscriber |-> sub, guard |-> EmptySlots ]
    ELSE [ result |-> "Ok", subscriber |-> Some(filter),
           guard |-> [ tracer |-> tracer_provider, meter |-> meter_provider,
                       logger |-> logger_provider ] ]

\* setup_tracing: init_tracer_provider?, init_meter_provider?, then
\* init_logger_provider? when otel_logs_enabled, then init_tracing_subscriber.
\* pt, pm, pl: the providers the builds make; okT, okM, okL: whether each
\* exporter builds.
setup_tracing(e, prop, glob, sub, filter, otel_logs_enabled, pt, pm, pl, okT, okM, okL) ==
    LET t == init_tracer_provider(e, prop, glob, pt, okT)
        m == init_meter_provider(e, t.propagator, t.global, pm, okM)
        l == init_logger_provider(e, m.propagator, m.global, pl, okL)
        s == init_tracing_subscriber(sub, filter, pt, pm,
                                     IF otel_logs_enabled THEN pl ELSE NoProvider)
        base == [ result |-> "Err", propagator |-> t.propagator, global |-> t.global,
                  subscriber |-> sub, guard |-> EmptySlots, made |-> {} ]
    IN IF ~t.result.ok THEN base
       ELSE IF ~m.result.ok THEN [base EXCEPT !.made = {"tracer"}]
       ELSE IF otel_logs_enabled /\ ~l.result.ok
            THEN [base EXCEPT !.global = m.global, !.made = {"tracer", "meter"}]
       ELSE [ result |-> s.result, propagator |-> l.propagator, global |-> l.global,
              subscriber |-> s.subscriber, guard |-> s.guard,
              made |-> {"tracer", "meter"} \cup
                       (IF otel_logs_enabled THEN {"logger"} ELSE {}) ]

\* a caller runs setup_tracing (Logger::init and init_tracing_from_logger
\* end in it); g is the OtelGuard the call makes when it succeeds. A logger
\* provider built before init() panics is dropped, which shuts it down.
SetupTracing(g, filter, otel_logs_enabled, okT, okM, okL) ==
    /\ \A s \in SignalSet : built[s] < MaxGuards
    /\ guardState[g] = "Uninitialized"
    /\ \A h \in Guards : guardState[h] = "Uninitialized" => g <= h
    /\ LET r == setup_tracing(env, propagator, globalProvider, subscriber, filter,
                              otel_logs_enabled, NextProvider("tracer"),
                              NextProvider("meter"), NextProvider("logger"),
                              okT, okM, okL)
       IN /\ propagator' = r.propagator
          /\ globalProvider' = r.global
          /\ subscriber' = r.subscriber
          /\ built' = [s \in SignalSet |-> IF s \in r.made THEN built[s] + 1 ELSE built[s]]
          /\ guardState' = IF r.result = "Ok"
                           THEN [guardState EXCEPT ![g] = "Active"] ELSE guardState
          /\ slots' = IF r.result = "Ok" THEN [slots EXCEPT ![g] = r.guard] ELSE slots
          /\ provShut' = IF r.result = "panic" /\ "logger" \in r.made
                         THEN [provShut EXCEPT ![NextProvider("logger")] = TRUE]
                         ELSE provShut
          /\ initOp' = InitOp("setup_tracing", "all", r.result, NoProvider,
                              IF r.result = "Ok" THEN g ELSE 0)
    /\ UNCHANGED <<httpOp, spanName, calls, report>>
    /\ UNCHANGED <<protocolVars, layerVars, configVars, parseVars>>

ProviderNext ==
    \/ \E ok \in BOOLEAN : InitTracerProvider(ok)
    \/ \E ok \in BOOLEAN : InitMeterProvider(ok)
    \/ \E ok \in BOOLEAN : InitLoggerProvider(ok)
    \/ \E g \in Guards, filter \in LevelInputs, otel_logs_enabled \in BOOLEAN,
          okT \in BOOLEAN, okM \in BOOLEAN, okL \in BOOLEAN :
            SetupTracing(g, filter, otel_logs_enabled, okT, okM, okL)
    \/ \E g \in Guards : \E fail \in SUBSET HeldSignals(slots[g]) : GuardShutdown(g, fail)

(***************************************************************************)
(* Part 8: the output layers and the worker-guard slot                     *)
(* (crates/tracing-otel/src/logger/subscriber.rs, the same code in         *)
(* crates/tracing-otel/src/logs/subscriber.rs).                            *)
(***************************************************************************)
Threads == 1..MaxThreads

\* OnceLock::get, the fast path of OnceLock::set: the cell as it is read
OnceLockGet(cell) == cell

\* a bug: the value replaces whatever the cell holds
OnceLockInitializeReplacing(cell, value) == [ cell |-> Some(value), stored |-> TRUE ]

\* OnceLock::initialize under the cell's Once: the value is stored when the
\* cell is still empty, and handed back otherwise
OnceLockInitialize(cell, value) ==
    IF cell = None
    THEN [ cell |-> Some(value), stored |-> TRUE ]
    ELSE [ cell |-> cell, stored |-> FALSE ]

\* set_nonblocking_appender_guard: .set(guard).map_err(|_| anyhow!(..)); the
\* guard an Err hands back is dropped by the closure
set_nonblocking_appender_guard(stored) == IF stored THEN "Ok" ELSE "Err"

\* the part of a Logger that create_output_layers reads: console_enabled and
\* file_appender (None, or Some of enable and non_blocking)
FileAppender(enable, non_blocking) == [ enable |-> enable, non_blocking |-> non_blocking ]

LoggerConfig(console_enabled, file_appender) ==
    [ console_enabled |-> console_enabled, file_appender |-> file_appender ]

LoggerInputs ==
    { LoggerConfig(c, f) :
        c \in BOOLEAN,
        f \in {None} \cup { Some(FileAppender(e, n)) : e \in BOOLEAN, n \in BOOLEAN } }

NoLogger == LoggerConfig(FALSE, None)

\* init_layer: a boxed fmt layer on stdout, on the rolling file, or on the
\* non-blocking writer whose flush worker is `worker`
ConsoleLayer == [ kind |-> "console", non_blocking |-> FALSE, worker |-> 0 ]

FileLayer == [ kind |-> "file", non_blocking |-> FALSE, worker |-> 0 ]

NonBlockingFileLayer(worker) == [ kind |-> "file", non_blocking |-> TRUE, worker |-> worker ]

\* the result of create_output_layers: Ok(layers), or an error
LayersResult(result, layers) == [ result |-> result, layers |-> layers ]

\* a bug: the file layer is pushed before the console layer
create_output_layers_file_first(logger, build_ok) ==
    LET console == IF logger.console_enabled THEN <<ConsoleLayer>> ELSE <<>>
        file    == logger.file_appender
    IN IF ~IsSome(file) \/ ~Unwrap(file).enable
       THEN [ pending |-> FALSE, out |-> LayersResult("Ok", console) ]
       ELSE IF ~build_ok
       THEN [ pending |-> FALSE, out |-> LayersResult("Err", <<>>) ]
       ELSE IF Unwrap(file).non_blocking
       THEN [ pending |-> TRUE, out |-> LayersResult("Ok", console) ]
       ELSE [ pending |-> FALSE, out |-> LayersResult("Ok", <<FileLayer>> \o console) ]

\* create_output_layers up to the call of set_nonblocking_appender_guard:
\* the console layer when console_enabled; for a present and enabled
\* file_appender the rolling file appender is built (build_ok: the build
\* succeeds, otherwise the error returns) and either the blocking file layer
\* is pushed, or the call goes on (pending) to store the worker guard
create_output_layers_start(logger, build_ok) ==
    LET console == IF logger.console_enabled THEN <<ConsoleLayer>> ELSE <<>>
        file    == logger.file_appender
    IN IF ~IsSome(file) \/ ~Unwrap(file).enable
       THEN [ pending |-> FALSE, out |-> LayersResult("Ok", console) ]
       ELSE IF ~build_ok
       THEN [ pending |-> FALSE, out |-> LayersResult("Err", <<>>) ]
       ELSE IF Unwrap(file).non_blocking
       THEN [ pending |-> TRUE, out |-> LayersResult("Ok", console) ]
       ELSE [ pending |-> FALSE, out |-> LayersResult("Ok", Append(console, FileLayer)) ]

\* a bug: the result of set_nonblocking_appender_guard is ignored
create_output_layers_finish_unchecked(layers, worker, set_result) ==
    LayersResult("Ok", Append(layers, NonBlockingFileLayer(worker)))

\* create_output_layers after set_nonblocking_appender_guard(work_guard)?:
\* an error returns, otherwise the non-blocking file layer is pushed
create_output_layers_finish(layers, worker, set_result) ==
    IF set_result = "Err"
    THEN LayersResult("Err", <<>>)
    ELSE LayersResult("Ok", Append(layers, NonBlockingFileLayer(worker)))

\* where a thread stands: idle, or inside OnceLock::set ("check": before the
\* fast path, "once": before the initialisation) on behalf of a direct
\* set_nonblocking_appender_guard call or of create_output_layers
ThreadState(pc, op, logger, worker, layers) ==
    [ pc |-> pc, op |-> op, logger |-> logger, worker |-> worker, layers |-> layers ]

IdleThread == ThreadState("idle", "none", NoLogger, 0, <<>>)

\* the record of a create_output_layers call that returned
LayersOp(logger, build_ok, out) == [ logger |-> logger, build_ok |-> build_ok, out |-> out ]

NoLayersOp == [ logger |-> NoLogger, build_ok |-> TRUE, out |-> LayersResult("none", <<>>) ]

LayerInit ==
    /\ appenderGuard = None
    /\ threads = [th \in Threads |-> IdleThread]
    /\ workersMade = 0
    /\ dropped = {}
    /\ setResults = {}
    /\ returned = {}
    /\ layersOp = NoLayersOp

\* thread th calls set_nonblocking_appender_guard with the guard of a writer
\* it has just made
SetGuardCall(th) ==
    /\ threads[th].pc = "idle"
    /\ workersMade < MaxWorkers
    /\ workersMade' = workersMade + 1
    /\ threads' = [threads EXCEPT ![th] =
                      ThreadState("check", "set", NoLogger, workersMade + 1, <<>>)]
    /\ UNCHANGED <<appenderGuard, dropped, setResults, returned, layersOp>>
    /\ UNCHANGED otherThanLayers

\* thread th calls create_output_layers(logger): the call returns at once, or
\* it has made a non-blocking writer and goes on to store the worker guard
CreateOutputLayersCall(th, logger, build_ok) ==
    /\ threads[th].pc = "idle"
    /\ LET r == create_output_layers_start(logger, build_ok)
       IN IF r.pending
          THEN /\ workersMade < MaxWorkers
               /\ workersMade' = workersMade + 1
               /\ threads' = [threads EXCEPT ![th] =
                                 ThreadState("check", "layers", logger, workersMade + 1,
                                             r.out.layers)]
               /\ UNCHANGED layersOp
          ELSE /\ layersOp' = LayersOp(logger, build_ok, r.out)
               /\ UNCHANGED <<threads, workersMade>>
    /\ UNCHANGED <<appenderGuard, dropped, setResults, returned>>
    /\ UNCHANGED otherThanLayers

\* what a thread leaves behind when its OnceLock::set returns (stored: the
\* cell took the value)
SetReturns(th, stored) ==
    LET me  == threads[th]
        res == set_nonblocking_appender_guard(stored)
        out == create_output_layers_finish(me.layers, me.worker, res)
    IN /\ setResults' = setResults \cup {[ worker |-> me.worker, result |-> res ]}
       /\ dropped' = IF stored THEN dropped ELSE dropped \cup {me.worker}
       /\ layersOp' = IF me.op = "layers" THEN LayersOp(me.logger, TRUE, out) ELSE layersOp
       /\ returned' = IF me.op = "layers" /\ out.result = "Ok"
                      THEN returned \cup {me.worker} ELSE returned
       /\ threads' = [threads EXCEPT ![th] = IdleThread]

\* OnceLock::set, fast path: a cell that is already set answers Err
OnceCheck(th) ==
    /\ threads[th].pc = "check"
    /\ IF IsSome(OnceLockGet(appenderGuard))
       THEN SetReturns(th, FALSE)
       ELSE /\ threads' = [threads EXCEPT ![th].pc = "once"]
            /\ UNCHANGED <<dropped, setResults, returned, layersOp>>
    /\ UNCHANGED <<appenderGuard, workersMade>>
    /\ UNCHANGED otherThanLayers

\* OnceLock::set, initialisation under the Once
OnceInit(th) ==
    /\ threads[th].pc = "once"
    /\ LET r == OnceLockInitialize(appenderGuard, threads[th].worker)
       IN /\ appenderGuard' = r.cell
          /\ SetReturns(th, r.stored)
    /\ UNCHANGED workersMade
    /\ UNCHANGED otherThanLayers

LayerNext ==
    \/ \E th \in Threads : SetGuardCall(th)
    \/ \E th \in Threads, logger \in LoggerInputs, build_ok \in BOOLEAN :
            CreateOutputLayersCall(th, logger, build_ok)
    \/ \E th \in Threads : OnceCheck(th)
    \/ \E th \in Threads : OnceInit(th)

(***************************************************************************)
(* Part 9: the file appender's configuration merged with its Logger        *)
(* (crates/tracing-otel/src/logger/config.rs and the second                *)
(* LoggerFileAppender of crates/tracing-otel/src/logs/logger.rs).          *)
(***************************************************************************)
\* LogFormat
LogFormats == {"Compact", "Pretty", "Json"}

\* mod default
DefaultMaxLogFiles == 5

DefaultDir == "./logs"

DefaultFilenamePrefix == "combine"

DefaultFilenameSuffix == "log"

DefaultRotation == "Hourly"

\* Option::or
OptionOr(a, b) == IF IsSome(a) THEN a ELSE b

\* the fields of a Logger that merge_with_logger reads
ParentLogger(level, format) == [ level |-> level, format |-> format ]

\* struct LoggerFileAppender
LoggerFileAppender(enable, non_blocking, level, ansi, format, rotation, dir, filename_prefix, filename_suffix, max_log_files) ==
    [ enable |-> enable, non_blocking |-> non_blocking, level |-> level, ansi |-> ansi,
      format |-> format, rotation |-> rotation, dir |-> dir,
      filename_prefix |-> filename_prefix, filename_suffix |-> filename_suffix,
      max_log_files |-> max_log_files ]

\* logger::config::LoggerFileAppender::merge_with_logger: level and format
\* fall back to the Logger's, every other field is ..self.clone()
merge_with_logger(self, logger) ==
    [ self EXCEPT !.level  = OptionOr(self.level, Some(logger.level)),
                  !.format = OptionOr(self.format, Some(logger.format)) ]

\* logs::logger::LoggerFileAppender::merge_with_logger: level and format
\* fall back to the Logger's, dir and the filename prefix and suffix to the
\* defaults, the other fields are copied
logs_merge_with_logger(self, logger) ==
    LoggerFileAppender(
        self.enable, self.non_blocking,
        OptionOr(self.level, Some(logger.level)),
        self.ansi,
        OptionOr(self.format, Some(logger.format)),
        self.rotation,
        OptionOr(self.dir, Some(DefaultDir)),
        OptionOr(self.filename_prefix, Some(DefaultFilenamePrefix)),
        OptionOr(self.filename_suffix, Some(DefaultFilenameSuffix)),
        self.max_log_files)

\* dir_or_default, filename_prefix_or_default, filename_suffix_or_default
dir_or_default(self) == IF IsSome(self.dir) THEN Unwrap(self.dir) ELSE DefaultDir

filename_prefix_or_default(self) ==
    IF IsSome(self.filename_prefix) THEN Unwrap(self.filename_prefix) ELSE DefaultFilenamePrefix

filename_suffix_or_default(self) ==
    IF IsSome(self.filename_suffix) THEN Unwrap(self.filename_suffix) ELSE DefaultFilenameSuffix

\* file appender configurations as deserialisation leaves them: non_blocking
\* and ansi false, rotation and max_log_files at their defaults, the optional
\* fields unset or set
FileAppenderInputs ==
    { LoggerFileAppender(enable, FALSE, level, FALSE, format, DefaultRotation, dir,
                         prefix, suffix, DefaultMaxLogFiles) :
        enable \in BOOLEAN,
        level  \in {None} \cup { Some(l) : l \in {"DEBUG", "ERROR"} },
        format \in {None} \cup { Some(f) : f \in {"Json"} },
        dir    \in {None, Some("/var/log/app")},
        prefix \in {None, Some("app")},
        suffix \in {None, Some("txt")} }

ParentLoggerInputs ==
    { ParentLogger(Levels[i], f) : i \in 1..Len(Levels), f \in LogFormats }

\* the record of a merge_with_logger call
MergeOp(fn, self, logger, result) ==
    [ fn |-> fn, self |-> self, logger |-> logger, result |-> result ]

NoMergeOp ==
    LET unset == LoggerFileAppender(FALSE, FALSE, None, FALSE, None, DefaultRotation, None,
                                    None, None, DefaultMaxLogFiles)
    IN MergeOp("none", unset, ParentLogger("INFO", "Compact"), unset)

ConfigInit == mergeOp = NoMergeOp

\* a call of logger::config's merge_with_logger(&self, &Logger)
MergeWithLogger(self, logger) ==
    /\ mergeOp = NoMergeOp
    /\ mergeOp' = MergeOp("logger::config::merge_with_logger", self, logger,
                          merge_with_logger(self, logger))
    /\ UNCHANGED otherThanConfig

\* a call of logs::logger's merge_with_logger(&self, &Logger)
LogsMergeWithLogger(self, logger) ==
    /\ mergeOp = NoMergeOp
    /\ mergeOp' = MergeOp("logs::logger::merge_with_logger", self, logger,
                          logs_merge_with_logger(self, logger))
    /\ UNCHANGED otherThanConfig

\* the caller has taken the merged configuration
MergeConsumed ==
    /\ mergeOp # NoMergeOp
    /\ mergeOp' = NoMergeOp
    /\ UNCHANGED otherThanConfig

ConfigNext ==
    \/ \E self \in FileAppenderInputs, logger \in ParentLoggerInputs :
            MergeWithLogger(self, logger)
    \/ \E self \in FileAppenderInputs, logger \in ParentLoggerInputs :
            LogsMergeWithLogger(self, logger)
    \/ MergeConsumed

(***************************************************************************)
(* Part 10: functions of the configuration and of the request headers:     *)
(* the file layer's settings, the deserialisers of                         *)
(* crates/tracing-otel/src/logger/deserialize.rs, the environment loader   *)
(* of crates/tracing-otel/src/logger/env.rs and the request id of          *)
(* crates/tracing-otel/src/trace/fields.rs.                                *)
(***************************************************************************)
\* no call recorded
NoCall == [ fn |-> "none" ]

ParseInit ==
    /\ sinkOp = NoCall
    /\ spanEventsOp = NoCall
    /\ envLoadOp = NoCall
    /\ attributesOp = NoCall
    /\ requestIdOp = NoCall

\* the fields of a Logger that decide the file layer: level, format, ansi
SinkLogger(level, format, ansi) == [ level |-> level, format |-> format, ansi |-> ansi ]

\* what a caller or the environment gives for the file appender: level and
\* format set or not; ansi set or not (a struct literal always sets it)
GivenAppender(level, format, ansi) == [ level |-> level, format |-> format, ansi |-> ansi ]

\* #[serde(default)] on a bool: an absent field is false
SerdeDefaultBool(b) == IF IsSome(b) THEN Unwrap(b) ELSE FALSE

\* the LoggerFileAppender made from what was given, enabled, with the other
\* fields at their defaults
AppenderFrom(given) ==
    LoggerFileAppender(TRUE, FALSE, given.level, SerdeDefaultBool(given.ansi), given.format,
                       DefaultRotation, None, None, None, DefaultMaxLogFiles)

\* LoggerFileAppender::format_or_default
format_or_default(self) == IF IsSome(self.format) THEN Unwrap(self.format) ELSE "Compact"

\* init_env_filter with RUST_LOG unset: the one filter of the subscriber,
\* made from the Logger's level
init_env_filter(level) == level

\* the file layer of create_output_layers: init_layer with the appender's
\* format_or_default() and ansi; the layer has no filter of its own, its
\* events are those the subscriber's EnvFilter lets through
FileLayerSettings(logger, config) ==
    [ format |-> format_or_default(config),
      ansi   |-> config.ansi,
      level  |-> init_env_filter(logger.level) ]

SinkOp(fn, logger, given, config, layer) ==
    [ fn |-> fn, logger |-> logger, given |-> given, config |-> config, layer |-> layer ]

SinkLoggerInputs ==
    { SinkLogger(l, f, a) : l \in {"INFO", "ERROR"}, f \in LogFormats, a \in BOOLEAN }

\* a struct literal sets ansi; the environment may leave LOG_FILE_ANSI unset
StructAppenderInputs ==
    { GivenAppender(l, f, Some(a)) :
        l \in {None, Some("DEBUG")}, f \in {None, Some("Pretty")}, a \in BOOLEAN }

EnvAppenderInputs ==
    { GivenAppender(l, f, a) :
        l \in {None, Some("DEBUG")}, f \in {None, Some("Pretty")},
        a \in {None, Some(TRUE), Some(FALSE)} }

\* Logger::with_file_appender(Some(appender)), then create_output_layers:
\* the appender is taken as given
FileLayerOfBuilder(logger, given) ==
    /\ sinkOp = NoCall
    /\ LET config == AppenderFrom(given)
       IN sinkOp' = SinkOp("with_file_appender", logger, given, config,
                           FileLayerSettings(logger, config))
    /\ UNCHANGED otherThanSink

\* init_logger_from_env, then create_output_layers: the appender loaded from
\* the LOG_FILE_ variables is merged with the Logger by logger::config's
\* merge_with_logger
FileLayerOfEnv(logger, given) ==
    /\ sinkOp = NoCall
    /\ LET config == merge_with_logger(AppenderFrom(given), logger)
       IN sinkOp' = SinkOp("init_logger_from_env", logger, given, config,
                           FileLayerSettings(logger, config))
    /\ UNCHANGED otherThanSink

\* the layers were handed to the subscriber
SinkConsumed ==
    /\ sinkOp # NoCall
    /\ sinkOp' = NoCall
    /\ UNCHANGED otherThanSink

SinkNext ==
    \/ \E logger \in SinkLoggerInputs, given \in StructAppenderInputs :
            FileLayerOfBuilder(logger, given)
    \/ \E logger \in SinkLoggerInputs, given \in EnvAppenderInputs :
            FileLayerOfEnv(logger, given)
    \/ SinkConsumed

\* str::split(sep): the pieces between the separators, empty ones included
RECURSIVE SplitKeepEmpty(_, _, _, _)
SplitKeepEmpty(chars, sep, i, cur) ==
    IF i > Len(chars) THEN <<cur>>
    ELSE IF chars[i] = sep THEN <<cur>> \o SplitKeepEmpty(chars, sep, i + 1, <<>>)
    ELSE SplitKeepEmpty(chars, sep, i + 1, Append(cur, chars[i]))

Split(chars, sep) == SplitKeepEmpty(chars, sep, 1, <<>>)

\* FmtSpan: a set of the four flags
FmtSpanNONE == {}

FmtSpanNEW == {"NEW"}

FmtSpanENTER == {"ENTER"}

FmtSpanEXIT == {"EXIT"}

FmtSpanCLOSE == {"CLOSE"}

FmtSpanACTIVE == {"ENTER", "EXIT"}

FmtSpanFULL == {"NEW", "ENTER", "EXIT", "CLOSE"}

\* the two spellings of a token: "FMT::" and "FmtSpan::" before the name
FmtPrefix == <<"F", "M", "T", ":", ":">>

FmtSpanPrefix == <<"F", "m", "t", "S", "p", "a", "n", ":", ":">>

Spelled(part, name) == part \in { FmtPrefix \o name, FmtSpanPrefix \o name }

NameNEW == <<"N", "E", "W">>

NameENTER == <<"E", "N", "T", "E", "R">>

NameEXIT == <<"E", "X", "I", "T">>

NameCLOSE == <<"C", "L", "O", "S", "E">>

NameNONE == <<"N", "O", "N", "E">>

NameACTIVE == <<"A", "C", "T", "I", "V", "E">>

NameFULL == <<"F", "U", "L", "L">>

\* the arms of the match on a token that go on with the loop: Some(flags),
\* or None for a token that no such arm matches (none_arm: the match has the
\* "FMT::NONE" | "FmtSpan::NONE" arm)
SpanEventArm(part, none_arm) ==
    IF Spelled(part, NameNEW) THEN Some(FmtSpanNEW)
    ELSE IF Spelled(part, NameENTER) THEN Some(FmtSpanENTER)
    ELSE IF Spelled(part, NameEXIT) THEN Some(FmtSpanEXIT)
    ELSE IF Spelled(part, NameCLOSE) THEN Some(FmtSpanCLOSE)
    ELSE IF none_arm /\ Spelled(part, NameNONE) THEN Some(FmtSpanNONE)
    ELSE IF Spelled(part, NameACTIVE) THEN Some(FmtSpanACTIVE)
    ELSE None

\* the loop over the trimmed pieces: a FULL token returns Ok(FULL) at once,
\* an unmatched token returns the error, any other token is or-ed in
RECURSIVE SpanEventsLoop(_, _, _, _)
SpanEventsLoop(parts, i, result, none_arm) ==
    IF i > Len(parts) THEN Ok(result)
    ELSE LET part == Trim(parts[i])
             arm  == SpanEventArm(part, none_arm)
         IN IF IsSome(arm)
            THEN SpanEventsLoop(parts, i + 1, result \cup Unwrap(arm), none_arm)
            ELSE IF Spelled(part, NameFULL) THEN Ok(FmtSpanFULL)
            ELSE Err

\* logger::deserialize::deserialize_span_events
deserialize_span_events(s) ==
    IF Trim(s) = <<>> THEN Ok(FmtSpanNONE)
    ELSE SpanEventsLoop(Split(Trim(s), "|"), 1, FmtSpanNONE, TRUE)

\* logs::logger::deserialize_span_events: the same without the NONE arm
logs_deserialize_span_events(s) ==
    IF Trim(s) = <<>> THEN Ok(FmtSpanNONE)
    ELSE SpanEventsLoop(Split(Trim(s), "|"), 1, FmtSpanNONE, FALSE)

\* tokens to join: both spellings, padding, NONE, FULL, an unknown word, a
\* blank
SpanEventTokens ==
    { FmtPrefix \o NameNEW,
      FmtSpanPrefix \o NameCLOSE,
      <<" ">> \o FmtPrefix \o NameACTIVE \o <<" ">>,
      FmtPrefix \o NameNONE,
      FmtPrefix \o NameFULL,
      <<"I", "N", "V", "A", "L", "I", "D">>,
      <<" ">> }

TokenLists == UNION { [1..n -> SpanEventTokens] : n \in 0..MaxTokens }

\* the list with the tokens at i and j exchanged
Swapped(tokens, i, j) ==
    [ k \in 1..Len(tokens) |->
        IF k = i THEN tokens[j] ELSE IF k = j THEN tokens[i] ELSE tokens[k] ]

\* the positions to exchange: two positions of the list, or none (1, 1)
SwapPositions(tokens, i, j) == i <= j /\ (j <= Len(tokens) \/ j = 1)

\* the record of a deserialize_span_events call on the joined tokens, and of
\* a call on the same tokens with two of them exchanged
SpanEventsOp(fn, tokens, result, swapped, swapped_result) ==
    [ fn |-> fn, tokens |-> tokens, input |-> Join(tokens, "|"), result |-> result,
      swapped |-> swapped, swapped_result |-> swapped_result ]

DeserializeSpanEvents(tokens, i, j) ==
    /\ spanEventsOp = NoCall
    /\ SwapPositions(tokens, i, j)
    /\ LET swapped == Swapped(tokens, i, j)
       IN spanEventsOp' =
            SpanEventsOp("logger::deserialize::deserialize_span_events", tokens,
                         deserialize_span_events(Join(tokens, "|")), swapped,
                         deserialize_span_events(Join(swapped, "|")))
    /\ UNCHANGED otherThanSpanEvents

LogsDeserializeSpanEvents(tokens, i, j) ==
    /\ spanEventsOp = NoCall
    /\ SwapPositions(tokens, i, j)
    /\ LET swapped == Swapped(tokens, i, j)
       IN spanEventsOp' =
            SpanEventsOp("logs::logger::deserialize_span_events", tokens,
                         logs_deserialize_span_events(Join(tokens, "|")), swapped,
                         logs_deserialize_span_events(Join(swapped, "|")))
    /\ UNCHANGED otherThanSpanEvents

\* the caller has taken the result
SpanEventsConsumed ==
    /\ spanEventsOp # NoCall
    /\ spanEventsOp' = NoCall
    /\ UNCHANGED otherThanSpanEvents

SpanEventsNext ==
    \/ \E tokens \in TokenLists, i \in 1..MaxTokens, j \in 1..MaxTokens :
            DeserializeSpanEvents(tokens, i, j)
    \/ \E tokens \in TokenLists, i \in 1..MaxTokens, j \in 1..MaxTokens :
            LogsDeserializeSpanEvents(tokens, i, j)
    \/ SpanEventsConsumed

\* the texts the enum deserialisers match
CompactText == <<"c", "o", "m", "p", "a", "c", "t">>

PrettyText == <<"p", "r", "e", "t", "t", "y">>

JsonText == <<"j", "s", "o", "n">>

\* deserialize_log_format: lower-cased and trimmed, one of the three names;
\* anything else is an error
deserialize_log_format(s) ==
    LET name == Trim(ToAsciiLowercase(s))
    IN IF name = CompactText THEN Ok("Compact")
       ELSE IF name = PrettyText THEN Ok("Pretty")
       ELSE IF name = JsonText THEN Ok("Json")
       ELSE Err

\* deserialize_log_format_optional: a blank string is None
deserialize_log_format_optional(s) ==
    IF Trim(s) = <<>> THEN Ok(None)
    ELSE LET r == deserialize_log_format(s) IN IF r.ok THEN Ok(Some(r.val)) ELSE Err

\* the names <Level as FromStr> accepts, compared ignoring ASCII case
LevelNames ==
    [ ERROR |-> <<"e", "r", "r", "o", "r">>, WARN |-> <<"w", "a", "r", "n">>, INFO |-> <<"i", "n", "f", "o">>, DEBUG |-> <<"d", "e", "b", "u", "g">>, TRACE |-> <<"t", "r", "a", "c", "e">> ]

\* str::parse::<Level>: "1".."5", or a level name in any case
ParseLevel(s) ==
    LET byName   == { l \in DOMAIN LevelNames : ToAsciiLowercase(s) = LevelNames[l] }
        byNumber == { i \in 1..Len(Levels) : s = <<HexDigits[i + 1]>> }
    IN IF byNumber # {} THEN Ok(Levels[CHOOSE i \in byNumber : TRUE])
       ELSE IF byName # {} THEN Ok(CHOOSE l \in byName : TRUE)
       ELSE Err

\* deserialize_level_required
deserialize_level_required(s) == ParseLevel(s)

\* deserialize_level_optional: a blank string is None
deserialize_level_optional(s) ==
    IF Trim(s) = <<>> THEN Ok(None)
    ELSE LET r == ParseLevel(s) IN IF r.ok THEN Ok(Some(r.val)) ELSE Err

\* the serde names of LogRollingRotation, matched as they stand
RotationNames ==
    [ Minutely |-> <<"m", "i", "n", "u", "t", "e", "l", "y">>, Hourly |-> <<"h", "o", "u", "r", "l", "y">>, Daily |-> <<"d", "a", "i", "l", "y">>, Never |-> <<"n", "e", "v", "e", "r">> ]

DeserializeRotation(s) ==
    LET named == { r \in DOMAIN RotationNames : s = RotationNames[r] }
    IN IF named # {} THEN Ok(CHOOSE r \in named : TRUE) ELSE Err

\* a bool field read from an environment value
TrueText == <<"t", "r", "u", "e">>

FalseText == <<"f", "a", "l", "s", "e">>

DeserializeBool(s) ==
    IF ToAsciiLowercase(s) = TrueText THEN Ok(TRUE)
    ELSE IF ToAsciiLowercase(s) = FalseText THEN Ok(FALSE)
    ELSE Err

\* the LOG_ and LOG_FILE_ variables read here: each unset (None) or set
LogEnvKeys ==
    {"LOG_FORMAT", "LOG_LEVEL", "LOG_FILE_ENABLE", "LOG_FILE_FORMAT", "LOG_FILE_LEVEL",
     "LOG_FILE_ROTATION"}

\* a field with a serde default: the default when the variable is unset,
\* the deserialiser's answer otherwise
FieldOrDefault(value, parsed, default) == IF IsSome(value) THEN parsed ELSE Ok(default)

\* the Logger of build_env_config(prefix)?.try_deserialize(): format and
\* level; an error of either deserialiser is the error of the whole
LoggerFromEnv(e) ==
    LET format == FieldOrDefault(e.LOG_FORMAT,
                                 deserialize_log_format(Unwrap(e.LOG_FORMAT)), "Compact")
        level  == FieldOrDefault(e.LOG_LEVEL,
                                 deserialize_level_required(Unwrap(e.LOG_LEVEL)), "INFO")
    IN IF format.ok /\ level.ok THEN Ok(ParentLogger(level.val, format.val)) ELSE Err

\* load_file_appender_from_env: config.try_deserialize().ok(): enable has
\* no default, so it must be set; any error of any field gives None
load_file_appender_from_env(e) ==
    LET enable   == IF IsSome(e.LOG_FILE_ENABLE)
                    THEN DeserializeBool(Unwrap(e.LOG_FILE_ENABLE)) ELSE Err
        format   == FieldOrDefault(e.LOG_FILE_FORMAT,
                        deserialize_log_format_optional(Unwrap(e.LOG_FILE_FORMAT)), None)
        level    == FieldOrDefault(e.LOG_FILE_LEVEL,
                        deserialize_level_optional(Unwrap(e.LOG_FILE_LEVEL)), None)
        rotation == FieldOrDefault(e.LOG_FILE_ROTATION,
                        DeserializeRotation(Unwrap(e.LOG_FILE_ROTATION)), DefaultRotation)
    IN IF enable.ok /\ format.ok /\ level.ok /\ rotation.ok
       THEN Some(LoggerFileAppender(enable.val, FALSE, level.val, FALSE, format.val,
                                    rotation.val, None, None, None, DefaultMaxLogFiles))
       ELSE None

\* init_logger_from_env: the Logger, with the file appender merged in when
\* one was loaded
init_logger_from_env(e) ==
    LET logger == LoggerFromEnv(e)
        file   == load_file_appender_from_env(e)
    IN IF ~logger.ok THEN Err
       ELSE IF IsSome(file)
       THEN Ok([ logger |-> logger.val,
                 file_appender |-> Some(merge_with_logger(Unwrap(file), logger.val)) ])
       ELSE Ok([ logger |-> logger.val, file_appender |-> None ])

\* environments: each variable unset, valid (one of them padded and in
\* upper case) or an unknown word
LogEnvInputs ==
    [ LOG_FORMAT        : {None, Some(JsonText), Some(<<" ", "J", "S", "O", "N", " ">>), Some(<<"y", "a", "m", "l">>)},
      LOG_LEVEL         : {None, Some(LevelNames.DEBUG), Some(<<"v", "e", "r", "b", "o", "s", "e">>)},
      LOG_FILE_ENABLE   : {None, Some(TrueText)},
      LOG_FILE_FORMAT   : {None, Some(PrettyText), Some(<<"y", "a", "m", "l">>)},
      LOG_FILE_LEVEL    : {None, Some(<<"W", "A", "R", "N">>), Some(<<"v", "e", "r", "b", "o", "s", "e">>)},
      LOG_FILE_ROTATION : {None, Some(RotationNames.Daily), Some(<<"w", "e", "e", "k", "l", "y">>)} ]

EnvLoadOp(e, result) == [ fn |-> "init_logger_from_env", env |-> e, result |-> result ]

InitLoggerFromEnv(e) ==
    /\ envLoadOp = NoCall
    /\ envLoadOp' = EnvLoadOp(e, init_logger_from_env(e))
    /\ UNCHANGED otherThanEnvLoad

\* the caller has taken the Logger or the error
EnvLoadConsumed ==
    /\ envLoadOp # NoCall
    /\ envLoadOp' = NoCall
    /\ UNCHANGED otherThanEnvLoad

EnvLoadNext ==
    \/ \E e \in LogEnvInputs : InitLoggerFromEnv(e)
    \/ EnvLoadConsumed

\* the closure of deserialize_attributes on one segment: trimmed, split at
\* its first '=', key and value trimmed; no '=' or an empty key or value is
\* an error
AttributeOf(segment) ==
    LET s == Trim(segment)
        i == IndexOf(s, "=")
    IN IF i = 0 THEN Err
       ELSE LET key   == Trim(SubSeq(s, 1, i - 1))
                value == Trim(SubSeq(s, i + 1, Len(s)))
            IN IF key = <<>> \/ value = <<>> THEN Err ELSE Ok(<<key, value>>)

\* a bug: a malformed segment is left out of the list
RECURSIVE CollectAttributesLenient(_, _, _)
CollectAttributesLenient(pieces, i, acc) ==
    IF i > Len(pieces) THEN Ok(acc)
    ELSE IF Trim(pieces[i]) = <<>> THEN CollectAttributesLenient(pieces, i + 1, acc)
    ELSE LET kv == AttributeOf(pieces[i])
         IN IF kv.ok THEN CollectAttributesLenient(pieces, i + 1, Append(acc, kv.val))
            ELSE CollectAttributesLenient(pieces, i + 1, acc)

\* .filter(non-blank).map(closure).collect::<Result<Vec<_>, _>>(): the pairs
\* in order, or the first error
RECURSIVE CollectAttributes(_, _, _)
CollectAttributes(pieces, i, acc) ==
    IF i > Len(pieces) THEN Ok(acc)
    ELSE IF Trim(pieces[i]) = <<>> THEN CollectAttributes(pieces, i + 1, acc)
    ELSE LET kv == AttributeOf(pieces[i])
         IN IF kv.ok THEN CollectAttributes(pieces, i + 1, Append(acc, kv.val)) ELSE Err

\* deserialize_attributes
deserialize_attributes(s) ==
    IF s = <<>> THEN Ok(<<>>) ELSE CollectAttributes(Split(s, ","), 1, <<>>)

\* segments to join: a pair, a padded pair, a value holding '=', an empty
\* and a blank segment, and segments without value, key or '='
AttributeSegments ==
    { <<"k", "=", "v">>, <<" ", "k", "2", " ", "=", " ", "v", "2", " ">>, <<"a", "=", "b", "=", "c">>, <<>>, <<" ">>, <<"n", "o", "v", "a", "l", "u", "e", "=">>, <<" ", "=", "n", "o", "k", "e", "y">>, <<"n", "o", "e", "q">> }

SegmentLists == UNION { [1..n -> AttributeSegments] : n \in 0..MaxSegments }

AttributesOp(segments, result) ==
    [ fn |-> "deserialize_attributes", segments |-> segments,
      input |-> Join(segments, ","), result |-> result ]

DeserializeAttributes(segments) ==
    /\ attributesOp = NoCall
    /\ attributesOp' = AttributesOp(segments, deserialize_attributes(Join(segments, ",")))
    /\ UNCHANGED otherThanAttributes

\* the caller has taken the result
AttributesConsumed ==
    /\ attributesOp # NoCall
    /\ attributesOp' = NoCall
    /\ UNCHANGED otherThanAttributes

AttributesNext ==
    \/ \E segments \in SegmentLists : DeserializeAttributes(segments)
    \/ AttributesConsumed

\* a header value is a sequence of bytes; "xFF" stands for a byte that is
\* not visible ASCII
OpaqueByte == "xFF"

\* HeaderValue::to_str: Ok only when every byte is visible ASCII
HeaderValueToStr(value) ==
    IF \E i \in 1..Len(value) : value[i] = OpaqueByte THEN Err ELSE Ok(value)

\* the two headers of a request that extract_request_id reads: for each the
\* list of its values, in the order they were appended
RequestIdHeaders(x_request_id, request_id) ==
    [ x_request_id |-> x_request_id, request_id |-> request_id ]

\* HeaderMap::get: the first value of the header, if any
HeaderMapGet(values) == IF values = <<>> THEN None ELSE Some(values[1])

\* a bug: request-id is also tried when x-request-id cannot be read as text
extract_request_id_from_headers_text_first(headers) ==
    LET x == HeaderMapGet(headers.x_request_id)
        r == HeaderMapGet(headers.request_id)
    IN IF IsSome(x) /\ HeaderValueToStr(Unwrap(x)).ok THEN Some(Unwrap(x))
       ELSE IF IsSome(r) /\ HeaderValueToStr(Unwrap(r)).ok THEN Some(Unwrap(r))
       ELSE None

\* extract_request_id_from_headers: get(X_REQUEST_ID), or else
\* get(REQUEST_ID), and then value.to_str().ok()
extract_request_id_from_headers(headers) ==
    LET x      == HeaderMapGet(headers.x_request_id)
        chosen == IF IsSome(x) THEN x ELSE HeaderMapGet(headers.request_id)
    IN IF IsSome(chosen) /\ HeaderValueToStr(Unwrap(chosen)).ok
       THEN Some(Unwrap(chosen)) ELSE None

\* extract_request_id: unwrap_or_default, the empty string for None
extract_request_id(headers) ==
    LET id == extract_request_id_from_headers(headers)
    IN IF IsSome(id) THEN Unwrap(id) ELSE <<>>

\* header values: two ids and one that is not text
RequestIdValues == { <<"r", "e", "q", "-", "1">>, <<"a", "b", "c">>, <<"i", "d", OpaqueByte>> }

RequestIdValueLists == UNION { [1..n -> RequestIdValues] : n \in 0..2 }

RequestIdOp(headers, result) ==
    [ fn |-> "extract_request_id", headers |-> headers, result |-> result ]

ExtractRequestId(headers) ==
    /\ requestIdOp = NoCall
    /\ requestIdOp' = RequestIdOp(headers, extract_request_id(headers))
    /\ UNCHANGED otherThanRequestId

\* the caller has recorded the request id
RequestIdConsumed ==
    /\ requestIdOp # NoCall
    /\ requestIdOp' = NoCall
    /\ UNCHANGED otherThanRequestId

RequestIdNext ==
    \/ \E x \in RequestIdValueLists, r \in RequestIdValueLists :
            ExtractRequestId(RequestIdHeaders(x, r))
    \/ RequestIdConsumed

(***************************************************************************)
(* Part 11: Logger::init (crates/tracing-otel/src/logger/init.rs):         *)
(* create_output_layers, then setup_tracing.                               *)
(***************************************************************************)
\* create_output_layers run by one thread with no other thread inside
\* OnceLock::set: the layers, the slot afterwards, and the worker guard the
\* call made (0: none) with whether the slot took it
create_output_layers(logger, build_ok, cell, worker) ==
    LET start == create_output_layers_start(logger, build_ok)
        once  == IF IsSome(OnceLockGet(cell))
                 THEN [ cell |-> cell, stored |-> FALSE ]
                 ELSE OnceLockInitialize(cell, worker)
        res   == set_nonblocking_appender_guard(once.stored)
    IN IF start.pending
       THEN [ out    |-> create_output_layers_finish(start.out.layers, worker, res),
              cell   |-> once.cell, worker |-> worker, stored |-> once.stored,
              set_result |-> res ]
       ELSE [ out    |-> start.out,
              cell   |-> cell, worker |-> 0, stored |-> FALSE, set_result |-> "none" ]

\* init_tracing_from_logger(logger): create_output_layers(&logger)?, then
\* setup_tracing(..)?, whose OtelGuard g it returns.  build_ok: the rolling
\* file appender builds; okT, okM, okL: each OTLP exporter builds.
InitTracingFromLogger(g, logger, otel_logs_enabled, filter, build_ok, okT, okM, okL) ==
    /\ initOp = NoInitOp
    /\ \A th \in Threads : threads[th].pc = "idle"
    /\ \A s \in SignalSet : built[s] < MaxGuards
    /\ workersMade < MaxWorkers
    /\ guardState[g] = "Uninitialized"
    /\ \A h \in Guards : guardState[h] = "Uninitialized" => g <= h
    /\ LET l == create_output_layers(logger, build_ok, appenderGuard, workersMade + 1)
           r == setup_tracing(env, propagator, globalProvider, subscriber, filter,
                              otel_logs_enabled, NextProvider("tracer"),
                              NextProvider("meter"), NextProvider("logger"),
                              okT, okM, okL)
           ran == l.out.result = "Ok"
       IN /\ layersOp' = LayersOp(logger, build_ok, l.out)
          /\ appenderGuard' = l.cell
          /\ workersMade' = IF l.worker = 0 THEN workersMade ELSE l.worker
          /\ dropped' = IF l.worker # 0 /\ ~l.stored THEN dropped \cup {l.worker} ELSE dropped
          /\ setResults' = IF l.worker = 0 THEN setResults
                           ELSE setResults \cup {[ worker |-> l.worker, result |-> l.set_result ]}
          /\ returned' = IF l.worker # 0 /\ ran THEN returned \cup {l.worker} ELSE returned
          /\ propagator' = IF ran THEN r.propagator ELSE propagator
          /\ globalProvider' = IF ran THEN r.global ELSE globalProvider
          /\ subscriber' = IF ran THEN r.subscriber ELSE subscriber
          /\ built' = [s \in SignalSet |->
                         IF ran /\ s \in r.made THEN built[s] + 1 ELSE built[s]]
          /\ guardState' = IF ran /\ r.result = "Ok"
                           THEN [guardState EXCEPT ![g] = "Active"] ELSE guardState
          /\ slots' = IF ran /\ r.result = "Ok" THEN [slots EXCEPT ![g] = r.guard] ELSE slots
          /\ provShut' = IF ran /\ r.result = "panic" /\ "logger" \in r.made
                         THEN [provShut EXCEPT ![NextProvider("logger")] = TRUE]
                         ELSE provShut
          /\ initOp' = InitOp("init_tracing_from_logger", "all",
                              IF ran THEN r.result ELSE "Err", NoProvider,
                              IF ran /\ r.result = "Ok" THEN g ELSE 0)
    /\ UNCHANGED <<httpOp, spanName, calls, report, threads>>
    /\ UNCHANGED <<protocolVars, configVars, parseVars>>

\* the caller has taken the guard or the error
InitReturned ==
    /\ initOp.fn = "init_tracing_from_logger"
    /\ initOp' = NoInitOp
    /\ UNCHANGED <<globalProvider, built>>
    /\ UNCHANGED <<guardVars, httpVars, protocolVars, layerVars, configVars, parseVars>>

LoggerInitNext ==
    \/ \E g \in Guards, logger \in LoggerInputs, otel_logs_enabled \in BOOLEAN,
          filter \in LevelInputs, build_ok \in BOOLEAN,
          okT \in BOOLEAN, okM \in BOOLEAN, okL \in BOOLEAN :
            InitTracingFromLogger(g, logger, otel_logs_enabled, filter, build_ok,
                                  okT, okM, okL)
    \/ InitReturned

HttpNext ==
    \/ \E ok \in BOOLEAN : InitTracerProvider(ok)
    \/ \E filter \in LevelInputs : InitTracingSubscriber(filter)
    \/ \E level \in LevelInputs, method \in Methods, route \in MatchedPaths,
          headers \in RequestHeaders, current \in CurrentContexts, fresh \in FreshIds :
            MakeSpan(level, method, route, headers, current, fresh)
    \/ \E module \in {"trace", "http"}, level \in LevelInputs, method \in Methods,
          route \in MatchedPaths, headers \in RequestHeaders,
          current \in CurrentContexts, fresh \in FreshIds :
            MakeRequestSpan(module, level, method, route, headers, current, fresh)
    \/ \E module \in {"trace", "http"}, level \in LevelInputs, started \in BOOLEAN,
          headers \in RequestHeaders, current \in CurrentContexts,
          fresh \in FreshIds, fresh2 \in FreshIds :
            SetOtelParent(module, level, started, headers, current, fresh, fresh2)
    \/ \E op \in {"inject_request", "inject_response"}, cx \in ContextInputs,
          carrier \in CarrierInputs :
            Inject(op, cx, carrier)
    \/ \E headers \in RequestHeaders, current \in CurrentContexts :
            Extract(headers, current)
    \/ \E current \in CurrentContexts : ExtractInjected(current)
    \/ Finish

Init == GuardInit /\ HttpInit /\ ProtocolInit /\ ProviderInit /\ LayerInit /\ ConfigInit /\ ParseInit

Next == CloneNext \/ HttpNext \/ ProtocolNext \/ ProviderNext \/ LayerNext \/ ConfigNext
            \/ SinkNext \/ SpanEventsNext \/ EnvLoadNext
            \/ AttributesNext \/ RequestIdNext \/ LoggerInitNext

\* the guard alone, the propagation and span path alone, and both together
SpecGuard == Init /\ [][GuardNext]_vars

SpecClone == Init /\ [][CloneNext]_vars

SpecHttp == Init /\ [][HttpNext]_vars

SpecProtocol == Init /\ [][ProtocolNext]_vars

SpecProvider == Init /\ [][ProviderNext]_vars

SpecLayers == Init /\ [][LayerNext]_vars

SpecConfig == Init /\ [][ConfigNext]_vars

SpecSink == Init /\ [][SinkNext]_vars

SpecSpanEvents == Init /\ [][SpanEventsNext]_vars

SpecEnvLoad == Init /\ [][EnvLoadNext]_vars

SpecAttributes == Init /\ [][AttributesNext]_vars

SpecRequestId == Init /\ [][RequestIdNext]_vars

SpecLoggerInit == Init /\ [][LoggerInitNext]_vars

Spec == Init /\ [][Next]_vars

(***************************************************************************)
(* Part 12: the claims.                                                     *)
(***************************************************************************)
SignalIndex(s) == CHOOSE i \in 1..Len(Signals) : Signals[i] = s

\* the signals of `set`, in tracer, meter, logger order
InSignalOrder(set) == SelectSeq(Signals, LAMBDA s : s \in set)

\* the signals a list of failures names, in the order of the list
SignalsOf(errors) == [i \in 1..Len(errors) |-> errors[i].signal]

\* the providers of a list are those held, each once, in signal order
CalledExactlyTheHeld(called, held) ==
    /\ Len(called) = Cardinality(HeldSignals(held))
    /\ \A s \in HeldSignals(held) : Occurrences(called, held[s]) = 1
    /\ \A i, j \in 1..Len(called) :
          i < j => SignalIndex(called[i][2]) < SignalIndex(called[j][2])

\* C1: OtelGuard::shutdown calls shutdown on every provider the guard holds,
\* in tracer, meter, logger order and each exactly once, whichever of the
\* earlier calls failed.
C1_ShutdownCallsEveryHeldProvider ==
    \A g \in Guards :
        report[g].op = "shutdown" =>
            /\ CalledExactlyTheHeld(report[g].called, report[g].held)
            /\ \A s \in HeldSignals(report[g].held) : calls[g][report[g].held[s]] = 1

\* a shutdown of a guard holding all three providers, in which the tracer's
\* and the meter's shutdown failed
C1_Witness ==
    \E g \in Guards :
        /\ report[g].op = "shutdown"
        /\ HeldSignals(report[g].held) = SignalSet
        /\ {"tracer", "meter"} \subseteq report[g].fail
        /\ Len(report[g].called) = 3

\* C2: when providers fail during OtelGuard::shutdown the returned error is
\* only the first failure and every later failure is reported through a log
\* line; when no provider fails the result is Ok.
C2_OnlyFirstFailureReturned ==
    \A g \in Guards :
        report[g].op = "shutdown" =>
            LET failures == InSignalOrder(report[g].fail)
                result   == report[g].result
            IN IF failures = <<>> THEN result.ok
               ELSE /\ ~result.ok
                    /\ SignalsOf(result.reported) = <<Head(failures)>>
                    /\ SignalsOf(result.logged) = Tail(failures)

\* C3: the guard goes Uninitialized -> Active -> ShutDown and stays there;
\* after an explicit shutdown all three slots are empty and the drop that
\* follows calls shutdown on no provider and reports nothing; no provider
\* ever receives two shutdown calls from one guard.
C3_StateInvariant ==
    \A g \in Guards :
        /\ \A p \in Providers : calls[g][p] <= 1
        /\ guardState[g] = "Uninitialized" =>
                slots[g] = EmptySlots /\ report[g].op = "none"
        /\ guardState[g] = "Active" => report[g].op = "none"
        /\ guardState[g] = "ShutDown" =>
                slots[g] = EmptySlots /\ report[g].op \in {"shutdown", "drop"}
        /\ report[g].op = "shutdown" =>
                report[g].dropCalled = <<>> /\ report[g].stderr = <<>>

C3_Step ==
    \A g \in Guards :
        /\ guardState'[g] # guardState[g] =>
                <<guardState[g], guardState'[g]>> \in
                    { <<"Uninitialized", "Active">>, <<"Active", "ShutDown">> }
        /\ guardState[g] = "ShutDown" =>
                /\ guardState'[g] = "ShutDown"
                /\ slots'[g] = slots[g]
                /\ calls'[g] = calls[g]
                /\ report'[g] = report[g]

C3_ShutDownIsTerminal == []C3_StateInvariant /\ [][C3_Step]_vars

\* a guard that held all three providers and was shut down explicitly, two of
\* the providers failing
C3_Witness ==
    \E g \in Guards :
        /\ guardState[g] = "ShutDown"
        /\ report[g].op = "shutdown"
        /\ HeldSignals(report[g].held) = SignalSet
        /\ Cardinality(report[g].fail) = 2
        /\ slots[g] = EmptySlots

\* C4: dropping a guard that was never shut down calls shutdown on every held
\* provider, each once and in order, whichever of them failed; every failure
\* is one line on standard error and nothing is returned or raised.
C4_DropTearsDownEveryHeldProvider ==
    \A g \in Guards :
        report[g].op = "drop" =>
            /\ CalledExactlyTheHeld(report[g].dropCalled, report[g].held)
            /\ \A s \in HeldSignals(report[g].held) : calls[g][report[g].held[s]] = 1
            /\ SignalsOf(report[g].stderr) = InSignalOrder(report[g].fail)
            /\ report[g].result.ok
            /\ report[g].result.reported = <<>>
            /\ slots[g] = EmptySlots

\* a drop of a guard holding all three providers, in which the tracer's and
\* the logger's shutdown failed
C4_Witness ==
    \E g \in Guards :
        /\ report[g].op = "drop"
        /\ HeldSignals(report[g].held) = SignalSet
        /\ report[g].fail = {"tracer", "logger"}
        /\ Len(report[g].stderr) = 2

\* the operations that hand back a span
SpanOps == {"make_span", "make_request_span", "set_otel_parent"}

InjectOps == {"inject_request", "inject_response"}

\* the span of the operation on record carries the trace id spelled `hex`,
\* as its OpenTelemetry trace id and in its trace_id field
SpanHasTraceId(hex) ==
    /\ httpOp.span.started
    /\ FormatHex(httpOp.span.otel.trace_id) = hex
    /\ httpOp.span.trace_id = Some(hex)

\* C5 as stated: for every request with a syntactically valid traceparent the
\* span handed back has the header's trace id and records it in trace_id.
C5_ValidTraceparentAlwaysAdopted ==
    \A v \in ValidTraceparentRequests :
        (httpOp.op \in SpanOps /\ httpOp.headers = v.headers) => SpanHasTraceId(v.hex)

\* C5, amended: for every request with a syntactically valid traceparent,
\* when TraceContextPropagator is the registered global propagator, the span
\* is enabled and it was not started before set_otel_parent ran, the span
\* handed back has the header's trace id and records it in trace_id.
C5_ValidTraceparentAdopted ==
    \A v \in ValidTraceparentRequests :
        ( /\ httpOp.op \in SpanOps
          /\ httpOp.headers = v.headers
          /\ httpOp.prop = "TraceContext"
          /\ httpOp.span.enabled
          /\ ~httpOp.started ) => SpanHasTraceId(v.hex)

\* AxumOtelSpanCreator::make_span on the request of the tests, inside a local
\* span, with the propagator registered: the header's id is on the span
C5_Witness ==
    /\ httpOp.op = "make_span"
    /\ httpOp.headers = WithTraceparent(ExampleTraceparent)
    /\ httpOp.prop = "TraceContext"
    /\ httpOp.current # EmptyContext
    /\ httpOp.span.enabled
    /\ httpOp.span.trace_id = Some(ExampleTraceIdHex)

\* a well-formed, non-zero trace id: 32 lower-case hex characters, not all "0"
WellFormedNonZero(hex) ==
    /\ Len(hex) = TraceIdHexLen
    /\ \A i \in 1..Len(hex) : \E v \in 0..15 : HexDigits[v + 1] = hex[i]
    /\ \E i \in 1..Len(hex) : hex[i] # "0"

\* C6 as stated: for a request with no traceparent or a malformed one the
\* trace id recorded on the span is well-formed and non-zero.
C6_NoParentAlwaysRecordsNonZero ==
    (httpOp.op \in SpanOps /\ httpOp.headers \in NoParentRequests) =>
        /\ IsSome(httpOp.span.trace_id)
        /\ WellFormedNonZero(Unwrap(httpOp.span.trace_id))

\* C6, amended: for a request with no traceparent or a malformed one, when
\* the span is enabled (a subscriber with the OpenTelemetry layer is
\* installed and its filter lets the span's level through), span creation
\* and set_otel_parent complete and the trace id recorded on the span is
\* well-formed and non-zero.
C6_NoParentRecordsNonZero ==
    (httpOp.op \in SpanOps /\ httpOp.headers \in NoParentRequests /\ httpOp.span.enabled) =>
        /\ IsSome(httpOp.span.trace_id)
        /\ WellFormedNonZero(Unwrap(httpOp.span.trace_id))
        /\ Unwrap(httpOp.span.trace_id) = FormatHex(httpOp.span.otel.trace_id)

\* make_request_span on a request whose traceparent is "invalid", outside any
\* span: the span carries a newly generated id
C6_Witness ==
    /\ httpOp.op = "make_request_span"
    /\ httpOp.module = "trace"
    /\ httpOp.headers = WithTraceparent(InvalidTraceparent)
    /\ httpOp.current = EmptyContext
    /\ httpOp.span.enabled
    /\ \E f \in FreshIds : httpOp.span.trace_id = Some(FormatHex(f.trace_id))

\* the identity x and the one read back agree on trace id, span id, sampled
\* flag and vendor state
SameIdentity(x, y) ==
    /\ y.trace_id = x.trace_id
    /\ y.span_id = x.span_id
    /\ IsSampled(y) = IsSampled(x)
    /\ y.trace_state = x.trace_state

ExpectedTraceparent(sampled) ==
    <<"0", "0", "-">> \o ExampleTraceIdHex \o <<"-">> \o ExampleSpanIdHex
    \o <<"-", "0", IF sampled THEN "1" ELSE "0">>

\* "key2=value2,key1=value1"
ReversedTracestate ==
    <<"k", "e", "y", "2", "=", "v", "a", "l", "u", "e", "2", ",",
      "k", "e", "y", "1", "=", "v", "a", "l", "u", "e", "1">>

\* the headers inject has to write for the valid span context sc (whose ids
\* are those of the tests)
WritesTraceHeaders(sc, carrier) ==
    /\ carrier["traceparent"] = Some(ExpectedTraceparent(sc.trace_flags \in {1, 3}))
    /\ sc.trace_state = ExampleTraceStatePairs =>
            carrier["tracestate"] = Some(ExampleTracestate)
    /\ sc.trace_state = ReversedTraceStatePairs =>
            carrier["tracestate"] = Some(ReversedTracestate)

C9_InjectWithoutSpanWritesNothing ==
    (httpOp.op \in InjectOps /\ httpOp.cx = EmptyContext) =>
        /\ httpOp.carrier["traceparent"] = None
        /\ httpOp.carrier = httpOp.headers

\* an inject of the empty context, with the propagator registered, into a
\* request that already has a header
C9_Witness ==
    /\ httpOp.op = "inject_request"
    /\ httpOp.cx = EmptyContext
    /\ httpOp.prop = "TraceContext"
    /\ httpOp.headers["x-request-id"] = Some(ExampleRequestId)
    /\ httpOp.carrier["x-request-id"] = Some(ExampleRequestId)

\* C10: when set_parent fails because the span was already started,
\* set_otel_parent logs the failure as a warning, returns, and still records
\* a trace id in the span's trace_id field.
C10_SetParentFailureIsWarned ==
    (httpOp.op = "set_otel_parent" /\ httpOp.set_parent = "AlreadyStarted") =>
        /\ httpOp.warn = <<"AlreadyStarted">>
        /\ httpOp.stderr = <<>>
        /\ IsSome(httpOp.span.trace_id)

\* the operations that create the span they hand back
SpanCreatingOps == {"make_span", "make_request_span"}

\* C11: in make_request_span and AxumOtelSpanCreator::make_span the span is
\* created, the headers are decoded, the decoded context is set as the parent
\* while the span is not yet started (set_parent answers Ok), and only then is
\* the trace id read and recorded; so the span handed back is started with the
\* decoded context as its parent and its trace_id field spells the trace id of
\* its OpenTelemetry span context (the parent's when the parent is valid). A
\* span the subscriber disabled is never started and records nothing.
C11_ParentSetBeforeTraceIdRead ==
    httpOp.op \in SpanCreatingOps =>
        IF httpOp.span.enabled
        THEN /\ httpOp.set_parent = "Ok"
             /\ httpOp.span.parent_cx =
                    extract_context_from_headers(httpOp.prop, httpOp.headers, httpOp.current)
             /\ httpOp.span.started
             /\ httpOp.span.trace_id = Some(FormatHex(httpOp.span.otel.trace_id))
             /\ IsValid(SpanContextOf(httpOp.span.parent_cx)) =>
                    httpOp.span.otel.trace_id = SpanContextOf(httpOp.span.parent_cx).trace_id
        ELSE /\ ~httpOp.span.started
             /\ httpOp.span.trace_id = None

\* http::span::make_request_span inside a local span, on a request with a
\* valid traceparent: the remote parent replaced the local one before the
\* span was started
C11_Witness ==
    /\ httpOp.op = "make_request_span"
    /\ httpOp.module = "http"
    /\ httpOp.prop = "TraceContext"
    /\ httpOp.headers = WithTraceparent(ExampleTraceparent)
    /\ httpOp.current = Some(AmbientSpanContext)
    /\ httpOp.span.started
    /\ httpOp.set_parent = "Ok"
    /\ httpOp.span.trace_id = Some(ExampleTraceIdHex)

\* C12: every span-creating entry point (AxumOtelSpanCreator::make_span and
\* make_request_span) hands back a span named "{METHOD} {ROUTE}" when the
\* request has a matched route and "{METHOD}" otherwise (checked on the spans
\* the subscriber enabled).
C12_SpanNamedByMethodAndRoute ==
    (httpOp.op \in SpanCreatingOps /\ httpOp.span.enabled) =>
        ExportedName(spanName.fields) =
            IF IsSome(spanName.route)
            THEN spanName.method \o <<" ">> \o Unwrap(spanName.route)
            ELSE spanName.method

\* what C13 says each value of a variable means: a protocol, or "absent"
C13_Meaning(value) ==
    IF value = EnvText(GrpcText) THEN "Grpc"
    ELSE IF value \in {EnvText(HttpProtobufText), EnvText(HttpProtoText)} THEN "HttpBinary"
    ELSE IF value \in {EnvText(HttpJsonText), EnvText(PaddedHttpJsonText)} THEN "HttpJson"
    ELSE "absent"

\* C13: the protocol of every exporter is the meaning of the signal's own
\* variable if that is a recognized value (grpc, http/protobuf, http/proto,
\* http/json, after trimming and case folding), otherwise the meaning of
\* OTEL_EXPORTER_OTLP_PROTOCOL if that is recognized, otherwise gRPC; an
\* unset or unrecognized value is skipped and a protocol always results.
C13_ProtocolFallbackChain ==
    exporter.signal \in SignalSet =>
        LET own  == C13_Meaning(env[SignalEnv[exporter.signal]])
            glob == C13_Meaning(env[OTEL_EXPORTER_OTLP_PROTOCOL])
        IN /\ exporter.protocol \in Protocols
           /\ exporter.protocol =
                IF own # "absent" THEN own ELSE IF glob # "absent" THEN glob ELSE "Grpc"

\* the metric exporter, with an unrecognized value in its own variable and
\* " HTTP/Json\n" in the global one
C13_Witness ==
    /\ exporter.signal = "meter"
    /\ env[OTEL_EXPORTER_OTLP_METRICS_PROTOCOL] = EnvText(UnrecognizedText)
    /\ env[OTEL_EXPORTER_OTLP_PROTOCOL] = EnvText(PaddedHttpJsonText)
    /\ exporter.protocol = "HttpJson"
    /\ exporter.transport = "http"

\* C14: the protocol of a signal's exporter depends only on the signal's own
\* variable and the global one: in every environment that differs from the
\* present one only in the other two signals' variables, protocol_for_signal
\* resolves the same protocol for the signal.
C14_ProtocolIndependentPerSignal ==
    exporter.signal \in SignalSet =>
        LET own    == SignalEnv[exporter.signal]
            others == EnvKeys \ {own, OTEL_EXPORTER_OTLP_PROTOCOL}
        IN \A f \in [others -> EnvValues] :
              protocol_for_signal([k \in EnvKeys |-> IF k \in others THEN f[k] ELSE env[k]],
                                  own) = exporter.protocol

\* the span exporter resolves gRPC with nothing set for traces or globally,
\* while the metrics and logs variables hold HTTP protocols
C14_Witness ==
    /\ exporter.signal = "tracer"
    /\ env[OTEL_EXPORTER_OTLP_TRACES_PROTOCOL] = Unset
    /\ env[OTEL_EXPORTER_OTLP_PROTOCOL] = Unset
    /\ env[OTEL_EXPORTER_OTLP_METRICS_PROTOCOL] = EnvText(HttpJsonText)
    /\ env[OTEL_EXPORTER_OTLP_LOGS_PROTOCOL] = EnvText(HttpProtoText)
    /\ exporter.protocol = "Grpc"

\* the calls that build one provider
ProviderInitFns == {"init_tracer_provider", "init_meter_provider", "init_logger_provider"}

C16_DefaultSetOnce ==
    \A g \in Guards, s \in {"tracer", "meter"} :
        (guardState[g] = "Active" /\ slots[g][s] # NoProvider) =>
            globalProvider[s] = slots[g][s]

\* the calls of set_nonblocking_appender_guard that have returned Ok
SetOk == { r \in setResults : r.result = "Ok" }

\* C17: the worker-guard slot is write-once.  A set_nonblocking_appender_guard
\* call returns Ok exactly when its guard is the one the slot holds; at most
\* one call ever returns Ok, and as soon as any call has returned one has
\* returned Ok, so of any number of sequential or concurrent callers exactly
\* one succeeds and the others return an error, their guards dropped; and
\* no step changes a slot that holds a guard.
C17_SlotWriteOnce ==
    /\ [](/\ Cardinality(SetOk) <= 1
          /\ \A r \in setResults : r.result = "Ok" <=> appenderGuard = Some(r.worker)
          /\ setResults # {} => Cardinality(SetOk) = 1
          /\ \A r \in setResults : r.result = "Err" => r.worker \in dropped
          /\ \A w \in dropped : appenderGuard # Some(w))
    /\ [][appenderGuard # None => appenderGuard' = appenderGuard]_vars

\* the caller that made its guard first lost the race to a concurrent caller,
\* and a third, later call failed as well
C17_Witness ==
    /\ appenderGuard = Some(2)
    /\ setResults = { [ worker |-> 1, result |-> "Err" ],
                      [ worker |-> 2, result |-> "Ok" ],
                      [ worker |-> 3, result |-> "Err" ] }
    /\ \A th \in Threads : threads[th].pc = "idle"

\* the non-blocking file layers of a list of layers
NonBlockingLayers(layers) ==
    { layers[i] : i \in { j \in 1..Len(layers) : layers[j].non_blocking } }

\* C18: whenever create_output_layers has returned a file layer built with
\* non_blocking set, the worker guard of that layer's writer is the guard
\* the process-wide slot holds, then and ever after: no returned
\* non-blocking file layer has a worker guard that was dropped.
C18_ReturnedWorkerRetained ==
    /\ \A w \in returned : appenderGuard = Some(w) /\ w \notin dropped
    /\ layersOp.out.result = "Ok" =>
          \A l \in NonBlockingLayers(layersOp.out.layers) : l.worker \in returned

\* create_output_layers returned a console layer and a non-blocking file
\* layer whose worker is in the slot, after another guard was refused
C18_Witness ==
    /\ layersOp.out.result = "Ok"
    /\ Len(layersOp.out.layers) = 2
    /\ layersOp.out.layers[2] = NonBlockingFileLayer(2)
    /\ appenderGuard = Some(2)
    /\ returned = {2}
    /\ dropped = {1, 3}

\* the kinds of the layers of a list, in order
LayerKinds(layers) == [ i \in 1..Len(layers) |-> layers[i].kind ]

\* whether a Logger asks for a file layer
FileEnabled(logger) == IsSome(logger.file_appender) /\ Unwrap(logger.file_appender).enable

\* C19: the list create_output_layers returns holds a console layer exactly
\* when console_enabled, a file layer exactly when file_appender is present
\* with enable = true, the console layer first, and nothing else: it is
\* empty with the console disabled and no enabled file appender.  The call
\* returns an error instead of a list only for an enabled file appender
\* (the appender cannot be built, or the worker-guard slot is taken).
C19_LayersFollowConfig ==
    /\ layersOp.out.result = "Ok" =>
          LayerKinds(layersOp.out.layers) =
              (IF layersOp.logger.console_enabled THEN <<"console">> ELSE <<>>)
              \o (IF FileEnabled(layersOp.logger) THEN <<"file">> ELSE <<>>)
    /\ layersOp.out.result = "Err" => FileEnabled(layersOp.logger)

\* console and a blocking file appender enabled: console first, then file
C19_Witness ==
    /\ layersOp.logger = LoggerConfig(TRUE, Some(FileAppender(TRUE, FALSE)))
    /\ layersOp.out = LayersResult("Ok", <<ConsoleLayer, FileLayer>>)

\* the file appender configuration with only enable = true set
OnlyEnabled(appender) ==
    /\ appender.enable
    /\ appender.level = None
    /\ appender.format = None
    /\ appender.dir = None
    /\ appender.filename_prefix = None
    /\ appender.filename_suffix = None

\* C20: merge_with_logger is pure and total: for a file appender
\* configuration with only enable = true set, the merged result has level
\* and format equal to the parent Logger's, dir "./logs", filename prefix
\* "combine" and filename suffix "log", each a concrete value, and the two
\* inputs are as they were.
C20_MergeResolvesEveryField ==
    (mergeOp.fn # "none" /\ OnlyEnabled(mergeOp.self)) =>
        /\ mergeOp.result.level = Some(mergeOp.logger.level)
        /\ mergeOp.result.format = Some(mergeOp.logger.format)
        /\ mergeOp.result.dir = Some(DefaultDir)
        /\ mergeOp.result.filename_prefix = Some(DefaultFilenamePrefix)
        /\ mergeOp.result.filename_suffix = Some(DefaultFilenameSuffix)

\* own value where it was given, the parent's where it was not
OwnOrParent(own, parent) == IF IsSome(own) THEN Unwrap(own) ELSE parent

\* C21: the file layer create_output_layers builds has the file
\* configuration's own level, format and ansi where they were set and the
\* parent Logger's where they were not, whether the Logger was built with
\* with_file_appender or loaded from the environment.
C21_FileLayerOwnOrParent ==
    sinkOp.fn # "none" =>
        /\ sinkOp.layer.format = OwnOrParent(sinkOp.given.format, sinkOp.logger.format)
        /\ sinkOp.layer.level = OwnOrParent(sinkOp.given.level, sinkOp.logger.level)
        /\ sinkOp.layer.ansi = OwnOrParent(sinkOp.given.ansi, sinkOp.logger.ansi)

\* the flags a token names, under either spelling; None for any other token
NamedFlags(token) ==
    LET part == Trim(token)
    IN IF Spelled(part, NameFULL) THEN Some(FmtSpanFULL)
       ELSE IF Spelled(part, NameNONE) THEN Some(FmtSpanNONE)
       ELSE SpanEventArm(part, FALSE)

\* what the statement asks of the pieces of an input: empty set for a blank
\* input, an error for any unrecognised piece, the union otherwise
ExpectedSpanEvents(input) ==
    LET parts == Split(Trim(input), "|")
    IN IF Trim(input) = <<>> THEN Ok(FmtSpanNONE)
       ELSE IF \E i \in 1..Len(parts) : NamedFlags(parts[i]) = None THEN Err
       ELSE Ok(UNION { Unwrap(NamedFlags(parts[i])) : i \in 1..Len(parts) })

\* C22: deserialize_span_events maps a pipe-joined token string to the union
\* of the flags its trimmed tokens name (FMT::X or FmtSpan::X), the empty or
\* blank string to the empty set, and returns an error whenever any token
\* is unrecognised, wherever it stands.
C22_SpanEventsUnionOrError ==
    spanEventsOp.fn = "logger::deserialize::deserialize_span_events" =>
        spanEventsOp.result = ExpectedSpanEvents(spanEventsOp.input)

\* C30: the result of deserialize_span_events does not depend on the order
\* of the tokens: the tokens with two of them exchanged give the same flag
\* set, or an error where the original order gives an error.
C30_SpanEventsOrderIndependent ==
    spanEventsOp.fn # "none" => spanEventsOp.swapped_result = spanEventsOp.result

\* whether a variable of the environment holds an unknown enum string
UnknownEnum(e) ==
    [ LOG_FORMAT        |-> IsSome(e.LOG_FORMAT)
                               /\ ~deserialize_log_format(Unwrap(e.LOG_FORMAT)).ok,
      LOG_LEVEL         |-> IsSome(e.LOG_LEVEL)
                               /\ ~deserialize_level_required(Unwrap(e.LOG_LEVEL)).ok,
      LOG_FILE_FORMAT   |-> IsSome(e.LOG_FILE_FORMAT)
                               /\ ~deserialize_log_format_optional(Unwrap(e.LOG_FILE_FORMAT)).ok,
      LOG_FILE_LEVEL    |-> IsSome(e.LOG_FILE_LEVEL)
                               /\ ~deserialize_level_optional(Unwrap(e.LOG_FILE_LEVEL)).ok,
      LOG_FILE_ROTATION |-> IsSome(e.LOG_FILE_ROTATION)
                               /\ ~DeserializeRotation(Unwrap(e.LOG_FILE_ROTATION)).ok ]

\* C23: an unknown enum string in LOG_FORMAT, LOG_LEVEL, LOG_FILE_FORMAT,
\* LOG_FILE_LEVEL or LOG_FILE_ROTATION makes init_logger_from_env return an
\* error; it never returns Ok with the file appender absent because one of
\* the file variables was invalid.
C23_UnknownEnumFailsFast ==
    (envLoadOp.fn # "none"
        /\ \E k \in DOMAIN UnknownEnum(envLoadOp.env) : UnknownEnum(envLoadOp.env)[k]) =>
            ~envLoadOp.result.ok

\* the non-blank segments of a list, in order
NonBlank(segments) == SelectSeq(segments, LAMBDA s : Trim(s) # <<>>)

\* a segment is well formed: it has a '=', with a non-blank key before the
\* first one and a non-blank value after it
WellFormedSegment(s) ==
    \E i \in 1..Len(s) :
        /\ s[i] = "="
        /\ \A j \in 1..(i - 1) : s[j] # "="
        /\ Trim(SubSeq(s, 1, i - 1)) # <<>>
        /\ Trim(SubSeq(s, i + 1, Len(s))) # <<>>

\* C24: deserialize_attributes gives the pairs of the non-blank segments in
\* input order, keys and values trimmed; the empty list for the empty and
\* the all-blank string; and an error, with no partial list, when any
\* non-blank segment has no '=' or an empty key or value.
C24_AttributesAllOrError ==
    attributesOp.fn # "none" =>
        LET segs == NonBlank(attributesOp.segments)
            res  == attributesOp.result
        IN IF \A i \in 1..Len(segs) : WellFormedSegment(segs[i])
           THEN /\ res.ok
                /\ Len(res.val) = Len(segs)
                /\ \A i \in 1..Len(segs) :
                      /\ res.val[i] = AttributeOf(segs[i]).val
                      /\ Trim(res.val[i][1]) = res.val[i][1]
                      /\ Trim(res.val[i][2]) = res.val[i][2]
           ELSE res = Err

\* a padded pair, a blank segment and a pair: two pairs in input order
C24_Witness ==
    /\ attributesOp.fn = "deserialize_attributes"
    /\ attributesOp.segments = << <<" ", "k", "2", " ", "=", " ", "v", "2", " ">>, <<" ">>, <<"k", "=", "v">> >>
    /\ attributesOp.result = Ok(<< << <<"k", "2">>, <<"v", "2">> >>, << <<"k">>, <<"v">> >> >>)

\* C26, as stated: extract_request_id returns the x-request-id header value
\* when that header is present, otherwise the request-id header value,
\* otherwise the empty string.
C26_RequestIdIsHeaderValue ==
    requestIdOp.fn # "none" =>
        requestIdOp.result =
            IF requestIdOp.headers.x_request_id # <<>>
            THEN requestIdOp.headers.x_request_id[1]
            ELSE IF requestIdOp.headers.request_id # <<>>
            THEN requestIdOp.headers.request_id[1]
            ELSE <<>>

\* the text of a header value, or the empty string for a value that is not
\* visible ASCII
TextOrEmpty(value) ==
    IF \A i \in 1..Len(value) : value[i] # OpaqueByte THEN value ELSE <<>>

\* C26, amended: extract_request_id looks at the first x-request-id value
\* when that header is present and otherwise at the first request-id value;
\* it returns that value when it is visible ASCII text and the empty string
\* when it is not, or when neither header is present.  A present
\* x-request-id always wins: request-id is not consulted even when the
\* x-request-id value is not text.
C26_RequestIdOfFirstPresentHeader ==
    requestIdOp.fn # "none" =>
        requestIdOp.result =
            IF requestIdOp.headers.x_request_id # <<>>
            THEN TextOrEmpty(requestIdOp.headers.x_request_id[1])
            ELSE IF requestIdOp.headers.request_id # <<>>
            THEN TextOrEmpty(requestIdOp.headers.request_id[1])
            ELSE <<>>

\* both headers present with text values: x-request-id wins
C26_Witness ==
    /\ requestIdOp.fn = "extract_request_id"
    /\ requestIdOp.headers = RequestIdHeaders(<< <<"r", "e", "q", "-", "1">> >>, << <<"a", "b", "c">> >>)
    /\ requestIdOp.result = <<"r", "e", "q", "-", "1">>

\* the shutdown() calls all guards together have made on provider p
RECURSIVE CallsUpTo(_, _)
CallsUpTo(p, g) == IF g = 0 THEN 0 ELSE calls[g][p] + CallsUpTo(p, g - 1)

\* the live guards that hold provider p
LiveHolders(p) ==
    { g \in Guards : guardState[g] = "Active" /\ \E s \in SignalSet : slots[g][s] = p }

\* C27: over any sequence of clone, shutdown and drop on a guard and its
\* clones, each provider is shut down exactly once: no provider gets a
\* second shutdown() call, and no provider is shut down while a live guard
\* still holds it.
C27_ProviderShutDownOnceAcrossClones ==
    \A p \in Providers :
        /\ CallsUpTo(p, MaxGuards) <= 1
        /\ provShut[p] => LiveHolders(p) = {}

\* C25: init_tracing_from_logger returns an error when no output layer is
\* configured: console_enabled false and no enabled file appender.
C25_NoOutputLayerIsAnError ==
    (initOp.fn = "init_tracing_from_logger"
        /\ ~layersOp.logger.console_enabled /\ ~FileEnabled(layersOp.logger)) =>
            initOp.result = "Err"

\* C28: a call of init_tracing_from_logger that returns an error leaves the
\* process-wide state as it found it: the propagator, the global default
\* providers and the worker-guard slot are unchanged, and every provider the
\* call built has been shut down.
C28_FailedInitLeavesNoTrace ==
    [][(initOp = NoInitOp /\ initOp'.fn = "init_tracing_from_logger"
            /\ initOp'.result = "Err") =>
          /\ propagator' = propagator
          /\ globalProvider' = globalProvider
          /\ appenderGuard' = appenderGuard
          /\ \A s \in SignalSet : built'[s] > built[s] => provShut'[<<built'[s], s>>]]_vars

\* the parent the span was given is a remote span context
HasRemoteParent(span) ==
    IsSome(span.parent_cx) /\ SpanContextOf(span.parent_cx).is_remote

\* a span made while the no-op propagator was in place: the header is
\* ignored, the parent of the span is the caller's current context
HeaderIgnored ==
    /\ ~HasRemoteParent(httpOp.span)
    /\ httpOp.span.parent_cx = (IF httpOp.span.enabled THEN httpOp.current
                                                        ELSE EmptyContext)

\* registration of the propagator comes before that of the tracer provider:
\* whenever a tracer provider is the global default, so is the propagator
PropagatorBeforeProvider ==
    globalProvider["tracer"] # NoProvider => propagator = "TraceContext"

\* C29 as stated: a span made for a request with a valid traceparent before
\* init_tracer_provider registered the propagator ignores the header and has
\* no remote parent; every span made after the registration has the
\* header's trace id; the propagator is registered before the tracer
\* provider.
C29_AdoptedWheneverRegisteredFirst ==
    /\ \A v \in ValidTraceparentRequests :
          (httpOp.op \in SpanOps /\ httpOp.headers = v.headers) =>
              IF httpOp.prop = "Noop" THEN HeaderIgnored
              ELSE SpanHasTraceId(v.hex) /\ HasRemoteParent(httpOp.span)
    /\ PropagatorBeforeProvider

\* C29, amended: a span made for a request with a valid traceparent before
\* init_tracer_provider registered the propagator ignores the header and has
\* no remote parent; a span made after the registration has the header's
\* trace id and a remote parent when it is enabled and was not started
\* before set_otel_parent ran, and has no remote parent otherwise; the
\* propagator is registered before the tracer provider.
C29_AdoptedOnlyAfterRegistration ==
    /\ \A v \in ValidTraceparentRequests :
          (httpOp.op \in SpanOps /\ httpOp.headers = v.headers) =>
              IF httpOp.prop = "Noop" THEN HeaderIgnored
              ELSE IF httpOp.span.enabled /\ ~httpOp.started
                   THEN SpanHasTraceId(v.hex) /\ HasRemoteParent(httpOp.span)
                   ELSE ~HasRemoteParent(httpOp.span)
    /\ PropagatorBeforeProvider

\* make_request_span for a request with a valid traceparent, inside a local
\* span, with a subscriber installed but before init_tracer_provider ran: the
\* span is enabled and started, and its trace id is not the header's
C29_Witness ==
    /\ httpOp.op = "make_request_span"
    /\ httpOp.headers = WithTraceparent(ExampleTraceparent)
    /\ httpOp.prop = "Noop"
    /\ propagator = "Noop"
    /\ globalProvider["tracer"] = NoProvider
    /\ httpOp.span.enabled
    /\ httpOp.span.started
    /\ httpOp.span.trace_id # Some(ExampleTraceIdHex)

====
